---- MODULE Spec2Model ----
(***************************************************************************)
(* A model of the SEC filing extraction pipeline of sec_financials.py:     *)
(* the rate-limited fetch/cache client (SecClient), fact selection and     *)
(* primary metric extraction, dimensional segment extraction and the       *)
(* payload assembler (build_financials).                                   *)
(***************************************************************************)
EXTENDS Integers, Sequences, FiniteSets, TLC

(***************************************************************************)
(* Bounds of the model.                                                    *)
(***************************************************************************)
\* longest payload a server sends, in bytes
MaxPayload == 2
\* SecClient.max_file_size_bytes of the modelled instance
MaxFileSize == 3
\* SecClient.max_total_download_bytes of the modelled instance
MaxTotalDownload == 5
\* SecClient.min_interval of the modelled instance, in clock ticks
MinInterval == 2
\* no request is sent after this time
MaxTime == 5
\* most entries one tag holds
MaxFacts == 3
\* most explicitMember elements in one context
MaxMembers == 2
\* most elements with a contextRef walked in one instance document
MaxFilings == 2
MaxQuarters == 2
MaxFiles == 3
MaxAgeDays == 2
MaxCacheBytes == 3
MaxElements == 2
MaxItems == 2

(***************************************************************************)
(* Bytes, compression and content decoding.                                *)
(***************************************************************************)
GzipMagic1 == 31
GzipMagic2 == 139
ZlibHeader == 120

NoEntry == <<-1>>
Urls == {"u1", "u2"}

RECURSIVE SeqsUpTo(_, _)
SeqsUpTo(S, n) ==
    IF n = 0 THEN {<<>>}
    ELSE LET shorter == SeqsUpTo(S, n - 1)
         IN shorter \cup {Append(s, b) : s \in {t \in shorter : Len(t) = n - 1}, b \in S}

\* the payloads a server holds: runs of one plain byte
PlainByte == 7
Payloads == SeqsUpTo({PlainByte}, MaxPayload)
\* a body cut after the gzip signature
Truncated == <<GzipMagic1, GzipMagic2>>

\* gzip.compress: signature, the data, a trailer holding the length
GzipCompress(x) == <<GzipMagic1, GzipMagic2>> \o x \o <<Len(x)>>
\* zlib.compress: a zlib header, the data, a trailer holding the length
ZlibCompress(x) == <<ZlibHeader>> \o x \o <<Len(x)>>
\* a raw deflate stream: no header
RawDeflate(x) == x \o <<Len(x)>>

Failed == [ok |-> FALSE, data |-> <<>>]
Decoded(x) == [ok |-> TRUE, data |-> x]

\* gzip.decompress(data): raises on a bad signature or trailer
GzipDecompress(d) ==
    IF Len(d) = 0 THEN Decoded(<<>>)
    ELSE IF Len(d) >= 3 /\ d[1] = GzipMagic1 /\ d[2] = GzipMagic2 /\ d[Len(d)] = Len(d) - 3
         THEN Decoded(SubSeq(d, 3, Len(d) - 1))
         ELSE Failed

\* zlib.decompress(data)
ZlibDecompress(d) ==
    IF Len(d) >= 2 /\ d[1] = ZlibHeader /\ d[Len(d)] = Len(d) - 2
    THEN Decoded(SubSeq(d, 2, Len(d) - 1))
    ELSE Failed

\* zlib.decompress(data, -zlib.MAX_WBITS)
RawInflate(d) ==
    IF Len(d) >= 1 /\ d[Len(d)] = Len(d) - 1
    THEN Decoded(SubSeq(d, 1, Len(d) - 1))
    ELSE Failed

\* the Content-Encoding header values a response may carry
NoHeader == "absent"
Headers == {NoHeader, " GZIP ", "deflate", "br"}

\* (content_encoding or "").strip().lower()
NormalizeEncoding_verbatim(h) == IF h = NoHeader THEN "" ELSE h
NormalizeEncoding(h) ==
    CASE h = NoHeader -> ""
      [] h = " GZIP " -> "gzip"
      [] OTHER -> h

HasGzipSignature(d) == Len(d) >= 2 /\ d[1] = GzipMagic1 /\ d[2] = GzipMagic2

_decode_response_bytes(data, content_encoding) ==
    LET encoding == NormalizeEncoding(content_encoding)
    IN  IF encoding = "gzip" THEN GzipDecompress(data)
        ELSE IF encoding = "deflate"
             THEN IF ZlibDecompress(data).ok THEN ZlibDecompress(data) ELSE RawInflate(data)
        ELSE IF HasGzipSignature(data) THEN GzipDecompress(data)
        ELSE Decoded(data)

\* what a server may answer: a body and its Content-Encoding header; the
\* bodies are the payloads, plain or compressed, a gzip file sent gzipped,
\* and a body cut after the signature
Responses ==
    [body : Payloads \cup {GzipCompress(p) : p \in Payloads}
                     \cup {ZlibCompress(p) : p \in Payloads}
                     \cup {RawDeflate(p) : p \in Payloads}
                     \cup {GzipCompress(GzipCompress(<<>>))}
                     \cup {Truncated},
     header : Headers]
\* urlopen raises: no response at all
Unreachable == [body |-> <<>>, header |-> "unreachable"]

(***************************************************************************)
(* Filings, facts and fact selection.                                      *)
(***************************************************************************)
\* an absent or empty date (None or ""); dates are day numbers
NoDate == 0
\* the report date of the filing under extraction, and an earlier period end
ReportDate == 300
EarlierDate == 200
Forms == {"10-K", "10-Q"}
\* the accession of the filing under extraction, and another filing's
OwnAccession == "A1"
OtherAccession == "A2"

\* the 105-day window of a single quarter
QuarterMaxDays == 105
\* what a missing duration counts as in the quarter filter
FilterDefaultDays == 999
\* what a missing duration counts as in the sort key
SortDefaultDays == 9999

NoVal == -1
NoFact == [accn |-> "none", form |-> "none", start |-> NoDate, end |-> NoDate, val |-> NoVal]

\* (start, end) of the facts of the model: an instant, a one-day period, a
\* quarter, the same quarter a year before, the longest and the first too
\* long quarter, a year to date
Periods == {
    <<NoDate, ReportDate>>,
    <<ReportDate, ReportDate>>,
    <<ReportDate - 90, ReportDate>>,
    <<EarlierDate - 90, EarlierDate>>,
    <<ReportDate - QuarterMaxDays, ReportDate>>,
    <<ReportDate - QuarterMaxDays - 1, ReportDate>>,
    <<ReportDate - 270, ReportDate>> }

Fact(accn, form, period, val) ==
    [accn |-> accn, form |-> form, start |-> period[1], end |-> period[2], val |-> val]

\* the entries one tag may hold: facts filed under the filing's accession,
\* and facts filed under another accession
SelFactSpace ==
    {Fact(OwnAccession, "10-Q", p, 1) : p \in Periods} \cup
    {Fact(OtherAccession, f, p, 1) :
        f \in Forms,
        p \in {<<ReportDate - 90, ReportDate>>, <<EarlierDate - 90, EarlierDate>>,
                <<ReportDate - 270, ReportDate>>}}

_duration_days(f) ==
    IF f.start = NoDate \/ f.end = NoDate THEN [has |-> FALSE, days |-> 0]
    ELSE [has |-> TRUE, days |-> f.end - f.start]

\* Python's `d or default`: None and 0 both give the default
OrDefault(d, default) == IF ~d.has \/ d.days = 0 THEN default ELSE d.days

\* [f for f in facts if f.get("accn") == filing.accession]
AccessionCands(facts, filing) ==
    SelectSeq(facts, LAMBDA f : f.accn = filing.accession)

\* [f for f in facts if f.get("end") == filing.report_date and f.get("form") == filing.form]
FallbackCands_any_form(facts, filing) ==
    SelectSeq(facts, LAMBDA f : f.end = filing.report_date)
FallbackCands(facts, filing) ==
    SelectSeq(facts, LAMBDA f : f.end = filing.report_date /\ f.form = filing.form)

MatchCandidates(facts, filing) ==
    IF AccessionCands(facts, filing) = <<>> /\ filing.report_date # NoDate
    THEN FallbackCands(facts, filing)
    ELSE AccessionCands(facts, filing)

\* [f for f in cands if (_duration_days(f) or 999) <= 105]
QuarterCands(cands) ==
    SelectSeq(cands, LAMBDA f : OrDefault(_duration_days(f), FilterDefaultDays) <= QuarterMaxDays)

YtdNote == "Quarter appears YTD; no safe quarter-only conversion available."

\* the candidates and notes after the 10-Q duration filter
FilterCands(cands, filing) ==
    IF filing.form = "10-Q"
    THEN IF QuarterCands(cands) # <<>>
         THEN [cands |-> QuarterCands(cands), notes |-> <<>>]
         ELSE [cands |-> cands, notes |-> <<YtdNote>>]
    ELSE [cands |-> cands, notes |-> <<>>]

\* the sort key (_duration_days(f) or 9999, f.get("end", "")), compared as tuples
SortKeyLess(a, b) ==
    LET da == OrDefault(_duration_days(a), SortDefaultDays)
        db == OrDefault(_duration_days(b), SortDefaultDays)
    IN  da < db \/ (da = db /\ a.end < b.end)

\* cands.sort(key=...) is stable; cands[0] is the first candidate, in the
\* order of the list, among those of the least key
FirstAfterSort(cands) ==
    LET i == CHOOSE k \in 1..Len(cands) :
                 /\ \A j \in 1..Len(cands) : ~SortKeyLess(cands[j], cands[k])
                 /\ \A j \in 1..(k - 1) : SortKeyLess(cands[k], cands[j])
    IN  cands[i]

_select_fact_for_filing(facts, filing) ==
    LET cands == MatchCandidates(facts, filing)
        flt   == FilterCands(cands, filing)
    IN  IF cands = <<>> THEN [fact |-> NoFact, notes |-> <<>>]
        ELSE [fact |-> FirstAfterSort(flt.cands), notes |-> flt.notes]

(***************************************************************************)
(* Primary metric extraction.                                              *)
(***************************************************************************)
RevenueTags_revenues_first == <<"Revenues", "RevenueFromContractWithCustomerExcludingAssessedTax",
                                "SalesRevenueNet">>
RevenueTags == <<"RevenueFromContractWithCustomerExcludingAssessedTax", "Revenues",
                 "SalesRevenueNet">>
ProfitTags == <<"NetIncomeLoss">>
CapexTier1 == <<"PaymentsToAcquirePropertyPlantAndEquipment">>
CapexTier2 == <<"CapitalExpenditures">>
Range(q) == {q[i] : i \in DOMAIN q}
AllTags == Range(RevenueTags) \cup Range(ProfitTags) \cup Range(CapexTier1) \cup Range(CapexTier2)

\* a metric that is None
Null == [value |-> NoVal, xbrl_tag |-> "none", capex_definition |-> "none", accession |-> "none"]

\* facts.get(tag, {}).get("units", {}).get("USD", [])
TagEntries(facts, tag) == IF tag \in DOMAIN facts THEN facts[tag] ELSE <<>>

\* the loop of metric(): the first tag whose selected fact has a value gives
\* the metric; the notes of every tag tried are kept
RECURSIVE MetricLoop(_, _, _, _, _)
MetricLoop(tags, i, capex_def, facts, filing) ==
    IF i > Len(tags) THEN [out |-> Null, notes |-> <<>>]
    ELSE LET sel == _select_fact_for_filing(TagEntries(facts, tags[i]), filing)
         IN  IF sel.fact # NoFact /\ sel.fact.val # NoVal
             THEN [out |-> [value |-> sel.fact.val, xbrl_tag |-> tags[i],
                            capex_definition |-> capex_def,
                            accession |-> filing.accession],
                   notes |-> sel.notes]
             ELSE LET rest == MetricLoop(tags, i + 1, capex_def, facts, filing)
                  IN  [out |-> rest.out, notes |-> sel.notes \o rest.notes]

\* missing.append({"field": name, "reason": "... tags: " + ", ".join(tags)})
MissingEntry(name, tags) == [field |-> name, tags |-> tags]

\* metric(name, tags, capex_def): the result, the notes and the missing
\* entries it appends
metric_silent(name, tags, capex_def, facts, filing) ==
    LET r == MetricLoop(tags, 1, capex_def, facts, filing)
    IN  [out |-> r.out, notes |-> r.notes, missing |-> <<>>]
metric(name, tags, capex_def, facts, filing) ==
    LET r == MetricLoop(tags, 1, capex_def, facts, filing)
    IN  [out |-> r.out, notes |-> r.notes,
         missing |-> IF r.out = Null THEN <<MissingEntry(name, tags)>> ELSE <<>>]

(***************************************************************************)
(* Segment extraction from an instance document.                           *)
(***************************************************************************)
SegmentFields == <<"revenue_by_segment", "profit_by_segment", "capex_by_segment">>

\* map_tags
map_tags(key) ==
    CASE key = "revenue_by_segment" -> Range(RevenueTags)
      [] key = "profit_by_segment" -> Range(ProfitTags)
      [] key = "capex_by_segment" -> Range(CapexTier1) \cup Range(CapexTier2)

\* the explicitMember elements a context may carry; a member is its text
\* split at ":" (prefix, local name), or a bare local name
MemberAt(k) ==
  LET MemberNames == <<"ServicesMember", "ProductMember", "AmericasMember", "EuropeMember">>
  IN
    [dimension |-> IF k % 2 = 1 THEN "us-gaap:StatementBusinessSegmentsAxis"
                                ELSE "srt:StatementGeographicalAxis",
     member |-> IF k % 2 = 1 THEN <<"us-gaap", MemberNames[k]>> ELSE <<MemberNames[k]>>]
MemberLists == {[k \in 1..n |-> MemberAt(k)] : n \in 0..MaxMembers}

\* mem["member"].split(":")[-1]
LocalName(member) == member[Len(member)]

CtxIds == {"c1", "c2"}
NoCtx == [present |-> FALSE, members |-> <<>>, end |-> NoDate]
\* a context element: id, members of its segment, period endDate and instant
ContextElements ==
    [id : CtxIds, members : MemberLists, endDate : {NoDate, ReportDate, EarlierDate},
     instant : {NoDate, ReportDate}]

\* ctx[cid] = {"members": members, "end": endDate or instant}
ParsedContext(c) ==
    [present |-> TRUE, members |-> c.members,
     end |-> IF c.endDate # NoDate THEN c.endDate ELSE c.instant]

\* the text of an element, one symbol per character class: a digit, a minus
\* sign, a dot, a blank, any other character
Texts == { <<"d">>, <<" ", "-", "d", "d", ".", "d", " ">>,
           <<>>, <<"x">>, <<"d", ".">>, <<"-">>, <<"d", "x">>, <<".", "d">>,
           <<"d", " ", "d">>, <<"-", "-", "d">>, <<"d", ".", "d", ".", "d">> }
\* the texts of the elements of the modelled documents
ElementTexts == { <<" ", "-", "d", "d", ".", "d", " ">>, <<"x">>, <<"d", ".">> }

\* txt.strip()
RECURSIVE Strip(_)
Strip(t) ==
    IF t = <<>> THEN t
    ELSE IF t[1] = " " THEN Strip(Tail(t))
    ELSE IF t[Len(t)] = " " THEN Strip(SubSeq(t, 1, Len(t) - 1))
    ELSE t

\* the number of digits of t from position i on
RECURSIVE DigitRun(_, _)
DigitRun(t, i) == IF i <= Len(t) /\ t[i] = "d" THEN 1 + DigitRun(t, i + 1) ELSE 0

\* re.match(r"^-?\d+(\.\d+)?$", txt)
IsPlainNumber(t) ==
    LET a  == IF Len(t) >= 1 /\ t[1] = "-" THEN 2 ELSE 1
        n1 == DigitRun(t, a)
        b  == a + n1
    IN  /\ n1 >= 1
        /\ \/ b = Len(t) + 1
           \/ /\ b <= Len(t) /\ t[b] = "."
              /\ DigitRun(t, b + 1) >= 1
              /\ b + 1 + DigitRun(t, b + 1) = Len(t) + 1

\* an element of the document: its local tag name, its contextRef attribute
\* (NoRef: none) and its text
NoRef == "none"
Elements ==
    [tag : {"Revenues", "NetIncomeLoss", "CapitalExpenditures", "Assets"},
     contextRef : CtxIds \cup {NoRef}, text : ElementTexts]

\* not ctx_ref or ctx_ref not in ctx
RefUnknown(e, ctx) == e.contextRef \notin CtxIds \/ ~ctx[e.contextRef].present

\* filing.report_date and ctx end and ctx end != filing.report_date
OtherDate_unchecked(c, filing) == FALSE
OtherDate(c, filing) ==
    filing.report_date # NoDate /\ c.end # NoDate /\ c.end # filing.report_date

\* the row of one member of the context of a fact
SegmentRow(e, mem, filing) ==
    [segment |-> LocalName(mem.member), value |-> Strip(e.text), xbrl_tag |-> e.tag,
     dimension |-> mem.dimension, member |-> mem.member, accession |-> filing.accession]

\* the rows one element appends to the list of key
RowsFor(e, key, ctx, filing) ==
    IF RefUnknown(e, ctx) THEN <<>>
    ELSE IF OtherDate(ctx[e.contextRef], filing) THEN <<>>
    ELSE IF ctx[e.contextRef].members = <<>> THEN <<>>
    ELSE IF ~IsPlainNumber(Strip(e.text)) THEN <<>>
    ELSE IF e.tag \notin map_tags(key) THEN <<>>
    ELSE [k \in 1..Len(ctx[e.contextRef].members) |->
             SegmentRow(e, ctx[e.contextRef].members[k], filing)]

NoSegments == [key \in Range(SegmentFields) |-> <<>>]

NoDimensionalFacts == "No dimensional facts found in XBRL instance for this filing."

\* for key in out: if not out[key]: missing.append(...)
SegmentMissing_revenue_only(out) ==
    IF out["revenue_by_segment"] = <<>>
    THEN <<[field |-> "revenue_by_segment", reason |-> NoDimensionalFacts]>>
    ELSE <<>>
SegmentMissing(out) ==
    LET entry(key) == IF out[key] = <<>>
                      THEN <<[field |-> key, reason |-> NoDimensionalFacts]>>
                      ELSE <<>>
    IN  entry(SegmentFields[1]) \o entry(SegmentFields[2]) \o entry(SegmentFields[3])

(***************************************************************************)
(* The filing catalog: collect_filings and limit_filings_scope.            *)
(***************************************************************************)
\* the calendar of the model: day 1 is the first day of FirstYear
FirstYear == 2024
\* int(date[:4])
YearOf(d) == FirstYear + ((d - 1) \div 365)
\* an absent fiscal year (None)
NoYear == 0
NoFp == "none"

\* "10-K" < "10-Q" as strings
FormRank(form) == IF form = "10-K" THEN 1 ELSE 2

\* f.report_date or f.filing_date
ReportOrFilingDate(f) == IF f.report_date # NoDate THEN f.report_date ELSE f.filing_date

\* key=lambda f: (f.report_date or f.filing_date, f.form)
DateFormLess(f, g) ==
    \/ ReportOrFilingDate(f) < ReportOrFilingDate(g)
    \/ /\ ReportOrFilingDate(f) = ReportOrFilingDate(g)
       /\ FormRank(f.form) < FormRank(g.form)

\* key=lambda f: (f.report_date or f.filing_date), reverse=True
DateGreater(f, g) == ReportOrFilingDate(f) > ReportOrFilingDate(g)

\* the order of the fiscal_period strings a period can carry
FiscalRank(label) ==
    CASE label = "FY" -> 1
      [] label = "Q1" -> 2
      [] label = "Q2" -> 3
      [] label = "Q3" -> 4
      [] label = "Q4" -> 5
      [] label = "Q?" -> 6
      [] label = "q1" -> 7
      [] OTHER -> 8

\* key=lambda p: (p["fiscal_year"], p["fiscal_period"], p["period_end"])
PeriodLess_by_end(p, q) == p.period_end < q.period_end
PeriodLess(p, q) ==
    \/ p.fiscal_year < q.fiscal_year
    \/ /\ p.fiscal_year = q.fiscal_year
       /\ \/ FiscalRank(p.fiscal_period) < FiscalRank(q.fiscal_period)
          \/ /\ p.fiscal_period = q.fiscal_period
             /\ p.period_end < q.period_end

\* A ticker, a company name and the company input are texts: sequences of
\* characters.  str.lower() and str.upper(), character by character
LowerText(t) ==
    [k \in DOMAIN t |-> CASE t[k] = "A" -> "a" [] t[k] = "B" -> "b" [] t[k] = "C" -> "c"
                           [] OTHER -> t[k]]
UpperText(t) ==
    [k \in DOMAIN t |-> CASE t[k] = "a" -> "A" [] t[k] = "b" -> "B" [] t[k] = "c" -> "C"
                           [] OTHER -> t[k]]

\* str.strip(): without the blanks at either end
RECURSIVE StripText(_)
StripText(t) ==
    IF t = <<>> THEN t
    ELSE IF t[1] = " " THEN StripText(Tail(t))
    ELSE IF t[Len(t)] = " " THEN StripText(SubSeq(t, 1, Len(t) - 1))
    ELSE t

\* sub in t
Contains(t, sub) ==
    \E k \in 0..Len(t) : k + Len(sub) <= Len(t) /\ SubSeq(t, k + 1, k + Len(sub)) = sub

\* the order of the characters: blank, capitals, small letters
CharRank(c) ==
    CASE c = " " -> 1 [] c = "A" -> 2 [] c = "B" -> 3 [] c = "C" -> 4
      [] c = "a" -> 5 [] c = "b" -> 6 [] c = "c" -> 7 [] OTHER -> 8

\* s < t for two str
RECURSIVE TextLess(_, _)
TextLess(s, t) ==
    IF t = <<>> THEN FALSE
    ELSE IF s = <<>> THEN TRUE
    ELSE IF s[1] # t[1] THEN CharRank(s[1]) < CharRank(t[1])
    ELSE TextLess(Tail(s), Tail(t))

\* the orders the program sorts in
SortsBefore(order, f, g) ==
    CASE order = "date_form" -> DateFormLess(f, g)
      [] order = "date_desc" -> DateGreater(f, g)
      [] order = "name" -> TextLess(f.name, g.name)
      [] order = "mtime" -> f.mtime < g.mtime
      [] OTHER -> PeriodLess(f, g)

\* list.sort is stable: an element goes after the elements that do not
\* sort after it
RECURSIVE InsertSorted(_, _, _)
InsertSorted(sorted, x, order) ==
    IF sorted = <<>> THEN <<x>>
    ELSE IF SortsBefore(order, x, sorted[Len(sorted)])
         THEN Append(InsertSorted(SubSeq(sorted, 1, Len(sorted) - 1), x, order), sorted[Len(sorted)])
         ELSE Append(sorted, x)

RECURSIVE StableSort(_, _)
StableSort(q, order) ==
    IF q = <<>> THEN <<>>
    ELSE InsertSorted(StableSort(SubSeq(q, 1, Len(q) - 1), order), q[Len(q)], order)

\* the year test of collect_filings: dropped only when the filing year and
\* a known fiscal year are both before min_year
TooOld_either(e, min_year) ==
    YearOf(e.filing_date) < min_year \/ (e.fy # NoYear /\ e.fy < min_year)
TooOld(e, min_year) ==
    YearOf(e.filing_date) < min_year /\ (e.fy # NoYear /\ e.fy < min_year)

collect_filings(recent, current_year, years) ==
    StableSort(SelectSeq(recent, LAMBDA e : e.form \in Forms /\ ~TooOld(e, current_year - years)),
            "date_form")

\* q[:n]
Prefix(q, n) ==
    IF n >= 0 THEN SubSeq(q, 1, IF n < Len(q) THEN n ELSE Len(q))
    ELSE SubSeq(q, 1, IF Len(q) + n > 0 THEN Len(q) + n ELSE 0)

limit_filings_scope(filings, max_quarters) ==
    LET annuals  == SelectSeq(filings, LAMBDA f : f.form = "10-K")
        quarters == StableSort(SelectSeq(filings, LAMBDA f : f.form = "10-Q"), "date_desc")
    IN  StableSort(annuals \o Prefix(quarters, max_quarters), "date_form")

\* (filing.fp or "").upper()
Upper(fp) ==
    CASE fp = "q1" -> "Q1"
      [] fp = "q2" -> "Q2"
      [] fp = NoFp -> ""
      [] OTHER -> fp

fiscal_period_label(filing) ==
    IF filing.form = "10-K" THEN "FY"
    ELSE IF Upper(filing.fp) \in {"Q1", "Q2", "Q3", "Q4"} THEN filing.fp ELSE "Q?"

(***************************************************************************)
(* Pure parts of a run: company resolution, the whole of                   *)
(* extract_primary_metrics, the instance chooser, the walk of an instance  *)
(* document and the period record.                                         *)
(***************************************************************************)
\* the rows of company_tickers.json of a run: one company
TickerRows == <<[cik |-> "0000000001", ticker |-> <<"A", "B">>, name |-> <<"A", "b", " ", "C">>]>>
NoCompany == [cik |-> "none", ticker |-> <<>>, name |-> <<>>]

\* resolve_company for an answer of the user: the row, or the ValueError
\* and the input its message names
resolve_company(rows, input, idx) ==
    LET exact      == SelectSeq(rows, LAMBDA r : UpperText(r.ticker) = UpperText(input))
        low        == StripText(LowerText(input))
        candidates == Prefix(StableSort(SelectSeq(rows,
                                 LAMBDA r : Contains(LowerText(r.name), low)), "name"), 5)
    IN  IF exact # <<>> THEN [ok |-> TRUE, row |-> exact[1], error |-> "none", names |-> <<>>]
        ELSE IF candidates = <<>>
        THEN [ok |-> FALSE, row |-> NoCompany,
              error |-> "Could not resolve company input", names |-> input]
        ELSE IF idx < 0 \/ idx >= Len(candidates)
        THEN [ok |-> FALSE, row |-> NoCompany, error |-> "Invalid selection", names |-> <<>>]
        ELSE [ok |-> TRUE, row |-> candidates[idx + 1], error |-> "none", names |-> <<>>]

\* the element of a one-element set: a value computed once and then named
Only(S) == CHOOSE x \in S : TRUE

\* what extract_primary_metrics returns after its four metric() calls
PrimaryResult(cap1, cap2, rev, prof) ==
    [out |-> [revenue |-> rev.out, profit_net_income |-> prof.out, capex |-> cap2.out],
     notes |-> cap1.notes \o cap2.notes \o rev.notes \o prof.notes,
     missing |-> cap1.missing \o cap2.missing \o rev.missing \o prof.missing]

\* lines 256-257: the second tier is called only when the first gave None
SecondTier(cap1, facts, filing) ==
    IF cap1.out = Null
    THEN metric("capex", CapexTier2, "capital_expenditures_fallback", facts, filing)
    ELSE [out |-> cap1.out, notes |-> <<>>, missing |-> <<>>]

\* extract_primary_metrics: capex by its two tiers, then revenue, then profit
extract_primary_metrics(facts, filing) ==
    Only({ PrimaryResult(cap1, SecondTier(cap1, facts, filing), rev, prof) :
           cap1 \in {metric("capex", CapexTier1, "cash_paid_for_ppe", facts, filing)},
           rev \in {metric("revenue", RevenueTags, "none", facts, filing)},
           prof \in {metric("profit_net_income", ProfitTags, "none", facts, filing)} })

\* the names a file index may list
InstanceName == "report_htm.xml"
NoInstance == "none"
\* the file names of the model in the order of Python's string comparison;
\* the first is the absent name
NameOrder ==
    << "", "FOO_PRE.XML", "abc_cal.xml", "doc.htm", "foo.pdf", "foo.xml", InstanceName,
       "schema.xsd" >>
NameRank(name) == CHOOSE k \in DOMAIN NameOrder : NameOrder[k] = name
\* name.lower()
Lower(name) == IF name = "FOO_PRE.XML" THEN "foo_pre.xml" ELSE name

\* an item of index.json: name, type and size
Item(name, type, size) == [name |-> name, type |-> type, size |-> size]

\* _is_skippable_artifact: a blocked extension, or a known size over the cap
_is_skippable_artifact_by_name(name, size, max_size_bytes) == Lower(name) \in {"foo.pdf"}
_is_skippable_artifact(name, size, max_size_bytes) ==
    \/ Lower(name) \in {"foo.pdf"}
    \/ size # 0 /\ size > max_size_bytes

\* lines 281-286: a name ending in .xml that is no linkbase file
IsCandidate(it) ==
    /\ it.name # ""
    /\ Lower(it.name) \in {"foo_pre.xml", "abc_cal.xml", "foo.xml", InstanceName}
    /\ Lower(it.name) \notin {"foo_pre.xml", "abc_cal.xml"}

\* lines 287-292: 100 for _htm.xml, 50 for an instance type, size // 1024
Score(it) ==
    (IF Lower(it.name) = InstanceName THEN 100 ELSE 0)
    + (IF it.type \in {"EX-101.INS", "instance"} THEN 50 ELSE 0)
    + (it.size \div 1024)

\* candidates.sort(reverse=True): (score, name) tuples, greatest first
_choose_instance_from_index(items) ==
    LET cands == SelectSeq(items, IsCandidate)
        Above(c, d) == \/ Score(c) > Score(d)
                       \/ Score(c) = Score(d) /\ NameRank(c.name) > NameRank(d.name)
    IN  IF cands = <<>> THEN NoInstance
        ELSE (CHOOSE c \in Range(cands) : \A d \in Range(cands) : ~Above(d, c)).name

\* lines 306-308: the named items that are not skippable, then the choice
ChosenInstance(index, max_size_bytes) ==
    _choose_instance_from_index(
        SelectSeq(index, LAMBDA x : /\ x.name # ""
                                    /\ ~_is_skippable_artifact(x.name, x.size, max_size_bytes)))

\* the file indexes of the model: empty, linkbase files only, a blocked and a
\* non-XML file, an instance over the per-file cap, an instance among others
IndexDocs ==
    { <<>>,
      <<Item("abc_cal.xml", "EX-101.CAL", 1), Item("FOO_PRE.XML", "EX-101.PRE", 0)>>,
      <<Item("foo.pdf", "", 1), Item("doc.htm", "10-K", 1), Item("", "", 0)>>,
      <<Item(InstanceName, "XML", MaxFileSize + 1), Item("schema.xsd", "EX-101.SCH", 1)>>,
      <<Item("abc_cal.xml", "EX-101.CAL", 1), Item(InstanceName, "XML", MaxFileSize)>> }

\* an instance document is its context elements and its other elements: a
\* document without any, and one with one dimensional revenue fact
InstanceDocs ==
    { [contexts |-> <<>>, elements |-> <<>>],
      [contexts |-> <<[id |-> "c1", members |-> [k \in 1..1 |-> MemberAt(k)],
                       endDate |-> ReportDate, instant |-> NoDate]>>,
       elements |-> <<[tag |-> "Revenues", contextRef |-> "c1",
                       text |-> <<" ", "-", "d", "d", ".", "d", " ">>]>>] }

\* lines 325-334: every context element of the document
RECURSIVE ContextsOf(_, _)
ContextsOf(contexts, i) ==
    IF i = 0 THEN [c \in CtxIds |-> NoCtx]
    ELSE [ContextsOf(contexts, i - 1) EXCEPT ![contexts[i].id] = ParsedContext(contexts[i])]

\* lines 344-369: every element of root.iter()
RECURSIVE WalkElements(_, _, _, _)
WalkElements(elements, i, ctx, filing) ==
    IF i = 0 THEN NoSegments
    ELSE LET out == WalkElements(elements, i - 1, ctx, filing)
         IN  [key \in Range(SegmentFields) |->
                  out[key] \o RowsFor(elements[i], key, ctx, filing)]

\* extract_segment_metrics on a fetched instance document
SegmentsOfDocument(doc, filing) ==
    LET out == WalkElements(doc.elements, Len(doc.elements),
                            ContextsOf(doc.contexts, Len(doc.contexts)), filing)
    IN  [seg |-> out, missing |-> SegmentMissing(out)]

\* lines 316-317
SegmentsNotFound ==
    [seg |-> NoSegments,
     missing |-> <<[field |-> "segment_metrics", reason |-> "XBRL instance XML not found for filing."]>>]

\* lines 473-475: the reason cites the mode and the form
SegmentsSkipped(mode, form) ==
    [seg |-> NoSegments,
     missing |-> <<[field |-> "segment_metrics", reason |-> "Skipped due to segments_mode for form.",
                    mode |-> mode, form |-> form]>>]

\* line 470
do_segments_unless_none(mode, filing) == mode # "none"
do_segments(mode, filing) == mode = "full" \/ (mode = "annual" /\ filing.form = "10-K")

\* sorted(set(notes)): the extractor produces one note text only
SortedSet(notes) == IF notes = <<>> THEN <<>> ELSE <<YtdNote>>

\* line 476: forecast extraction is not called; fc is empty and fc_missing
\* is this one entry
fc_missing_none == <<>>
fc_missing ==
    <<[field |-> "forecasted_capex",
       reason |-> "Skipped to reduce download volume; textual filing artifacts are not downloaded."]>>

\* lines 476-487: the period appended for a filing, from its primary
\* result prim and its segment result s
PeriodRecord(f, prim, s) ==
    [fiscal_year |-> IF f.fy # NoYear THEN f.fy ELSE YearOf(ReportOrFilingDate(f)),
     fiscal_period |-> fiscal_period_label(f),
     period_end |-> ReportOrFilingDate(f),
     filing |-> [form |-> f.form, filing_date |-> f.filing_date, accession |-> f.accession],
     revenue |-> prim.out.revenue,
     revenue_by_segment |-> s.seg["revenue_by_segment"],
     profit_net_income |-> prim.out.profit_net_income,
     profit_by_segment |-> s.seg["profit_by_segment"],
     capex |-> prim.out.capex,
     capex_by_segment |-> s.seg["capex_by_segment"],
     forecasted_capex |-> <<>>,
     forecasted_capex_by_segment |-> <<>>,
     notes |-> SortedSet(prim.notes),
     missing_data |-> prim.missing \o s.missing \o fc_missing]

PeriodOf(f, facts, s) ==
    Only({ PeriodRecord(f, prim, s) : prim \in {extract_primary_metrics(facts, f)} })

(***************************************************************************)
(* SecClient                                                               *)
(***************************************************************************)
VARIABLES
    total_downloaded_bytes,  \* SecClient.total_downloaded_bytes
    request_count,           \* SecClient.request_count
    last_request_ts,         \* SecClient._last_request_ts
    cache,                   \* the cache directory: url -> file content or NoEntry
    now,                     \* time.time()
    net_calls,               \* urlopen calls made so far
    last                     \* the last get() call and its outcome

clientVars == <<total_downloaded_bytes, request_count, last_request_ts, cache, now,
                net_calls, last>>

(***************************************************************************)
(* State of one _select_fact_for_filing call, followed step by step.       *)
(***************************************************************************)
VARIABLES
    sf_filing,   \* the filing argument
    sf_facts,    \* the facts argument: the entries of one tag
    sf_pc,       \* "start", "matched", "filtered", "done"
    sf_cands,    \* cands
    sf_notes,    \* notes
    sf_fact      \* the fact returned (NoFact: None)

selVars == <<sf_filing, sf_facts, sf_pc, sf_cands, sf_notes, sf_fact>>

(***************************************************************************)
(* State of one extract_primary_metrics call, one metric() call at a time. *)
(***************************************************************************)
VARIABLES
    pm_filing,   \* the filing argument
    pm_facts,    \* companyfacts["facts"]["us-gaap"]: tag -> USD entries
    pm_pc,       \* the next metric() call: "capex1", "capex2", "revenue", "profit", "done"
    pm_out,      \* the metrics computed so far
    pm_notes,    \* notes
    pm_missing   \* missing

primVars == <<pm_filing, pm_facts, pm_pc, pm_out, pm_notes, pm_missing>>

(***************************************************************************)
(* State of one extract_segment_metrics call on a located instance.        *)
(***************************************************************************)
VARIABLES
    sg_filing,   \* the filing argument
    sg_pc,       \* "contexts", "walk", "done"
    sg_ctx,      \* ctx: context id -> members and end
    sg_out,      \* out: the three segment lists
    sg_missing,  \* missing
    sg_walked,   \* elements of root.iter() walked so far
    sg_elem      \* the element walked last

segVars == <<sg_filing, sg_pc, sg_ctx, sg_out, sg_missing, sg_walked, sg_elem>>

(***************************************************************************)
(* State of one run of extract_company_financials / build_financials.      *)
(***************************************************************************)
VARIABLES
    rn_config,    \* the arguments of the run and the current year
    rn_world,     \* the documents the server holds
    rn_pc,        \* the statement the run is at, "returned" or "raised"
    rn_company,   \* company
    rn_filings,   \* filings
    rn_facts,     \* companyfacts
    rn_i,         \* the index of f in filings
    rn_periods,   \* periods, and the payload's periods once returned
    rn_fetches,   \* every client.get call of the run and its outcome
    rn_error,     \* the exception that ended the run, "none" while there is none
    rn_earlier,   \* the payload an earlier run with the same arguments returned,
                  \* the cache directory it began with and the cache directory
                  \* the current run began with
    rn_chosen     \* what a direct call of _choose_instance_from_index returned

runVars == <<rn_config, rn_world, rn_pc, rn_company, rn_filings, rn_facts, rn_i,
             rn_periods, rn_fetches, rn_error, rn_earlier, rn_chosen>>

vars == <<clientVars, selVars, primVars, segVars, runVars>>

\* no earlier run, the current one beginning with the cache directory dir
NoEarlierRun(dir) ==
    [returned |-> FALSE, company |-> [cik |-> "none", ticker |-> <<>>, name |-> <<>>],
     periods |-> <<>>, cache |-> dir, start |-> dir]

NoCall == [kind |-> "none", url |-> "u1", use_cache |-> TRUE, ok |-> TRUE, data |-> <<>>,
           cause |-> "none", body |-> <<>>, header |-> "absent"]

(* The state of a component that a specification does not exercise. *)
ClientIdle ==
    /\ total_downloaded_bytes = 0
    /\ request_count = 0
    /\ last_request_ts = 0
    /\ cache = [u \in Urls |-> NoEntry]
    /\ now = MinInterval
    /\ net_calls = 0
    /\ last = NoCall

SelectIdle ==
    /\ sf_filing = [form |-> "10-K", accession |-> OwnAccession, report_date |-> NoDate]
    /\ sf_facts = <<>>
    /\ sf_pc = "idle"
    /\ sf_cands = <<>>
    /\ sf_notes = <<>>
    /\ sf_fact = NoFact

NoMetrics == [revenue |-> Null, profit_net_income |-> Null, capex |-> Null]

PrimaryIdle ==
    /\ pm_filing = [form |-> "10-K", accession |-> OwnAccession, report_date |-> NoDate]
    /\ pm_facts = [t \in AllTags |-> <<>>]
    /\ pm_pc = "idle"
    /\ pm_out = NoMetrics
    /\ pm_notes = <<>>
    /\ pm_missing = <<>>

NoElement == [tag |-> "none", contextRef |-> NoRef, text |-> <<>>]

SegmentIdle ==
    /\ sg_filing = [form |-> "10-K", accession |-> OwnAccession, report_date |-> NoDate]
    /\ sg_pc = "idle"
    /\ sg_ctx = [c \in CtxIds |-> NoCtx]
    /\ sg_out = NoSegments
    /\ sg_missing = <<>>
    /\ sg_walked = 0
    /\ sg_elem = NoElement

NoFacts == [t \in AllTags |-> <<>>]

RunIdle ==
    /\ rn_config = [user_agent |-> "", segments_mode |-> "none", company_input |-> <<"z">>,
                    years |-> 0, max_quarters |-> 0, current_year |-> FirstYear]
    /\ rn_world = [tickers |-> <<>>, recent |-> <<>>, companyfacts |-> NoFacts, index |-> <<>>,
                   instance |-> [contexts |-> <<>>, elements |-> <<>>]]
    /\ rn_pc = "idle"
    /\ rn_company = NoCompany
    /\ rn_filings = <<>>
    /\ rn_facts = NoFacts
    /\ rn_i = 0
    /\ rn_periods = <<>>
    /\ rn_fetches = <<>>
    /\ rn_error = "none"
    /\ rn_earlier = NoEarlierRun(<<>>)
    /\ rn_chosen = NoInstance

\* the time at which _throttle returns: it sleeps until min_interval has passed
ThrottleUntil_no_wait(t, last_ts) == t
ThrottleUntil(t, last_ts) ==
    IF t - last_ts < MinInterval THEN last_ts + MinInterval ELSE t

FileCapExceeded(size) == size > MaxFileSize

RunCapExceeded_before_adding(total, size) == total > MaxTotalDownload
RunCapExceeded(total, size) == total + size > MaxTotalDownload

\* the outcome of _http_get after the throttle, for an answer of the server
HttpOutcome(total, resp) ==
    IF resp = Unreachable THEN [ok |-> FALSE, data |-> <<>>, cause |-> "network"]
    ELSE LET dec == _decode_response_bytes(resp.body, resp.header)
         IN  IF ~dec.ok THEN [ok |-> FALSE, data |-> <<>>, cause |-> "decompress"]
             ELSE IF FileCapExceeded(Len(dec.data))
                  THEN [ok |-> FALSE, data |-> <<>>, cause |-> "file_cap"]
             ELSE IF RunCapExceeded(total, Len(dec.data))
                  THEN [ok |-> FALSE, data |-> <<>>, cause |-> "run_cap"]
             ELSE [ok |-> TRUE, data |-> dec.data, cause |-> "none"]

\* use_cache and cp.exists()
CacheHit_ignoring_flag(url, use_cache) == cache[url] # NoEntry
CacheHit(url, use_cache) == use_cache /\ cache[url] # NoEntry

\* get(url, use_cache) answered from the cache file
GetCached(url, use_cache) ==
    /\ LET dec == _decode_response_bytes(cache[url], NoHeader)
       IN  last' = [kind |-> "hit", url |-> url, use_cache |-> use_cache, ok |-> dec.ok,
                    data |-> dec.data, cause |-> IF dec.ok THEN "none" ELSE "decompress",
                    body |-> cache[url], header |-> NoHeader]
    /\ UNCHANGED <<total_downloaded_bytes, request_count, last_request_ts, cache, now,
                   net_calls>>

\* self.request_count += 1, reached only when no check raised
RequestCountAfter_early(count, out) == count + 1
RequestCountAfter(count, out) == IF out.ok THEN count + 1 ELSE count

\* self.total_downloaded_bytes += size, reached only when no check raised
TotalAfter(total, out) == IF out.ok THEN total + Len(out.data) ELSE total

\* cp.write_bytes(data), reached only when _http_get returned
CacheAfter(url, out) == IF out.ok THEN [cache EXCEPT ![url] = out.data] ELSE cache

\* get(url, use_cache) through _http_get
GetNetwork(url, use_cache, resp) ==
    /\ LET sent == ThrottleUntil(now, last_request_ts)
           out  == HttpOutcome(total_downloaded_bytes, resp)
       IN  /\ now' = sent
           /\ last_request_ts' = sent
           /\ net_calls' = net_calls + 1
           /\ last' = [kind |-> "net", url |-> url, use_cache |-> use_cache, ok |-> out.ok,
                       data |-> out.data, cause |-> out.cause,
                       body |-> resp.body, header |-> resp.header]
           /\ total_downloaded_bytes' = TotalAfter(total_downloaded_bytes, out)
           /\ request_count' = RequestCountAfter(request_count, out)
           /\ cache' = CacheAfter(url, out)

Get ==
    \E url \in Urls, use_cache \in BOOLEAN :
        IF CacheHit(url, use_cache)
        THEN GetCached(url, use_cache)
        ELSE /\ ThrottleUntil(now, last_request_ts) <= MaxTime
             /\ \E resp \in Responses \cup {Unreachable} : GetNetwork(url, use_cache, resp)

Tick ==
    /\ now < MaxTime
    /\ now' = now + 1
    /\ UNCHANGED <<total_downloaded_bytes, request_count, last_request_ts, cache,
                   net_calls, last>>

\* files a cache directory may hold before the client is constructed
LegacyEntries == {NoEntry, GzipCompress(<<PlainByte>>), <<PlainByte>>}

InitClient ==
    /\ total_downloaded_bytes = 0
    /\ request_count = 0
    /\ last_request_ts = 0
    /\ cache \in [Urls -> LegacyEntries]
    /\ now = MinInterval
    /\ net_calls = 0
    /\ last = NoCall
    /\ SelectIdle /\ PrimaryIdle /\ SegmentIdle /\ RunIdle

ClientNext ==
    \/ Get /\ UNCHANGED <<selVars, primVars, segVars, runVars>>
    \/ Tick /\ UNCHANGED <<selVars, primVars, segVars, runVars>>

SpecClient == InitClient /\ [][ClientNext]_vars

(***************************************************************************)
(* _select_fact_for_filing, one statement group at a time.                 *)
(***************************************************************************)
InitSelect ==
    /\ sf_filing \in [form : Forms, accession : {OwnAccession},
                       report_date : {NoDate, ReportDate}]
    /\ sf_facts \in SeqsUpTo(SelFactSpace, MaxFacts)
    /\ sf_pc = "start"
    /\ sf_cands = <<>>
    /\ sf_notes = <<>>
    /\ sf_fact = NoFact
    /\ ClientIdle /\ PrimaryIdle /\ SegmentIdle /\ RunIdle

\* lines 215-220: the candidates by accession, else by (report date, form)
SelectMatch ==
    /\ sf_pc = "start"
    /\ sf_cands' = MatchCandidates(sf_facts, sf_filing)
    /\ sf_pc' = IF sf_cands' = <<>> THEN "done" ELSE "matched"
    /\ UNCHANGED <<sf_filing, sf_facts, sf_notes, sf_fact>>

\* lines 221-226: the duration filter of a quarterly filing
SelectFilter ==
    /\ sf_pc = "matched"
    /\ sf_cands' = FilterCands(sf_cands, sf_filing).cands
    /\ sf_notes' = sf_notes \o FilterCands(sf_cands, sf_filing).notes
    /\ sf_pc' = "filtered"
    /\ UNCHANGED <<sf_filing, sf_facts, sf_fact>>

\* lines 227-228: sort and return the first
SelectPick ==
    /\ sf_pc = "filtered"
    /\ sf_fact' = FirstAfterSort(sf_cands)
    /\ sf_pc' = "done"
    /\ UNCHANGED <<sf_filing, sf_facts, sf_cands, sf_notes>>

SelectNext ==
    \/ SelectMatch /\ UNCHANGED <<clientVars, primVars, segVars, runVars>>
    \/ SelectFilter /\ UNCHANGED <<clientVars, primVars, segVars, runVars>>
    \/ SelectPick /\ UNCHANGED <<clientVars, primVars, segVars, runVars>>

SpecSelect == InitSelect /\ [][SelectNext]_vars

(***************************************************************************)
(* extract_primary_metrics, one metric() call at a time.                   *)
(***************************************************************************)
\* the USD entries one tag may hold: none, a quarter's fact of the filing, a
\* fact of the filing without a value, a 10-K fact of another accession for
\* the same period, a year-to-date fact of the filing with the value 0
InitPrimary ==
    /\ pm_filing \in [form : Forms, accession : {OwnAccession}, report_date : {ReportDate}]
    /\ pm_facts \in [AllTags -> {
            <<>>,
            <<Fact(OwnAccession, "10-Q", <<ReportDate - 90, ReportDate>>, 5)>>,
            <<Fact(OwnAccession, "10-Q", <<ReportDate - 90, ReportDate>>, NoVal)>>,
            <<Fact(OtherAccession, "10-K", <<ReportDate - 90, ReportDate>>, 9)>>,
            <<Fact(OwnAccession, "10-Q", <<ReportDate - 270, ReportDate>>, 0)>> }]
    /\ pm_pc = "capex1"
    /\ pm_out = NoMetrics
    /\ pm_notes = <<>>
    /\ pm_missing = <<>>
    /\ ClientIdle /\ SelectIdle /\ SegmentIdle /\ RunIdle

\* one call of metric(): its result goes to the field, its notes and missing
\* entries are appended
CallMetric(field, name, tags, capex_def, next) ==
    LET r == metric(name, tags, capex_def, pm_facts, pm_filing)
    IN  /\ pm_out' = [pm_out EXCEPT ![field] = r.out]
        /\ pm_notes' = pm_notes \o r.notes
        /\ pm_missing' = pm_missing \o r.missing
        /\ pm_pc' = IF next = "capex2" /\ r.out # Null THEN "revenue" ELSE next
        /\ UNCHANGED <<pm_filing, pm_facts>>

\* line 255: cap = metric("capex", [Payments...], "cash_paid_for_ppe")
PrimaryCapexTier1 ==
    /\ pm_pc = "capex1"
    /\ CallMetric("capex", "capex", CapexTier1, "cash_paid_for_ppe", "capex2")

\* lines 256-257: if cap is None: cap = metric("capex", [CapitalExpenditures], ...)
PrimaryCapexTier2 ==
    /\ pm_pc = "capex2"
    /\ CallMetric("capex", "capex", CapexTier2, "capital_expenditures_fallback", "revenue")

\* line 259
PrimaryRevenue ==
    /\ pm_pc = "revenue"
    /\ CallMetric("revenue", "revenue", RevenueTags, "none", "profit")

\* line 260
PrimaryProfit ==
    /\ pm_pc = "profit"
    /\ CallMetric("profit_net_income", "profit_net_income", ProfitTags, "none", "done")

PrimaryNext ==
    \/ PrimaryCapexTier1 /\ UNCHANGED <<clientVars, selVars, segVars, runVars>>
    \/ PrimaryCapexTier2 /\ UNCHANGED <<clientVars, selVars, segVars, runVars>>
    \/ PrimaryRevenue /\ UNCHANGED <<clientVars, selVars, segVars, runVars>>
    \/ PrimaryProfit /\ UNCHANGED <<clientVars, selVars, segVars, runVars>>

SpecPrimary == InitPrimary /\ [][PrimaryNext]_vars

(***************************************************************************)
(* extract_segment_metrics after the instance document was located.        *)
(***************************************************************************)
InitSegment ==
    /\ sg_filing \in [form : {"10-K"}, accession : {OwnAccession},
                       report_date : {NoDate, ReportDate}]
    /\ sg_pc = "contexts"
    /\ sg_ctx = [c \in CtxIds |-> NoCtx]
    /\ sg_out = NoSegments
    /\ sg_missing = <<>>
    /\ sg_walked = 0
    /\ sg_elem = NoElement
    /\ ClientIdle /\ SelectIdle /\ PrimaryIdle /\ RunIdle

\* lines 326-334: one context element of the document
ParseContext ==
    /\ sg_pc = "contexts"
    /\ \E c \in ContextElements : sg_ctx' = [sg_ctx EXCEPT ![c.id] = ParsedContext(c)]
    /\ UNCHANGED <<sg_filing, sg_pc, sg_out, sg_missing, sg_walked, sg_elem>>

\* lines 344-369: one element of root.iter()
WalkElement ==
    /\ sg_pc \in {"contexts", "walk"}
    /\ sg_walked < MaxElements
    /\ \E e \in Elements :
          /\ sg_elem' = e
          /\ sg_out' = [key \in Range(SegmentFields) |->
                            sg_out[key] \o RowsFor(e, key, sg_ctx, sg_filing)]
    /\ sg_walked' = sg_walked + 1
    /\ sg_pc' = "walk"
    /\ UNCHANGED <<sg_filing, sg_ctx, sg_missing>>

\* lines 371-374: the missing entries of the empty lists
SegmentFinish ==
    /\ sg_pc \in {"contexts", "walk"}
    /\ sg_missing' = sg_missing \o SegmentMissing(sg_out)
    /\ sg_pc' = "done"
    /\ sg_elem' = NoElement
    /\ UNCHANGED <<sg_filing, sg_ctx, sg_out, sg_walked>>

SegmentNext ==
    \/ ParseContext /\ UNCHANGED <<clientVars, selVars, primVars, runVars>>
    \/ WalkElement /\ UNCHANGED <<clientVars, selVars, primVars, runVars>>
    \/ SegmentFinish /\ UNCHANGED <<clientVars, selVars, primVars, runVars>>

SpecSegment == InitSegment /\ [][SegmentNext]_vars

(***************************************************************************)
(* A run: extract_company_financials and build_financials, one fetch or    *)
(* one filing at a time.                                                   *)
(***************************************************************************)
TickersUrl == "files/company_tickers.json"
SubmissionsUrl == "submissions/CIK.json"
CompanyFactsUrl == "api/xbrl/companyfacts/CIK.json"
Accessions == {OwnAccession, OtherAccession, "A3"}
IndexUrl(acc) ==
    CASE acc = OwnAccession -> "Archives/A1/index.json"
      [] acc = OtherAccession -> "Archives/A2/index.json"
      [] OTHER -> "Archives/A3/index.json"
InstanceUrl(acc) ==
    CASE acc = OwnAccession -> "Archives/A1/report_htm.xml"
      [] acc = OtherAccession -> "Archives/A2/report_htm.xml"
      [] OTHER -> "Archives/A3/report_htm.xml"
RunUrls ==
    {TickersUrl, SubmissionsUrl, CompanyFactsUrl}
        \cup {IndexUrl(a) : a \in Accessions} \cup {InstanceUrl(a) : a \in Accessions}

\* the answers of the server during a run: a short plain body, the longest
\* payload gzipped, a raw body over the per-file cap, a truncated gzip body,
\* no answer
RunResponses ==
  LET LongestPayload == [k \in 1..MaxPayload |-> PlainByte]
  IN
    { [body |-> <<PlainByte>>, header |-> NoHeader],
      [body |-> GzipCompress(LongestPayload), header |-> " GZIP "],
      [body |-> ZlibCompress(LongestPayload), header |-> NoHeader],
      [body |-> Truncated, header |-> NoHeader],
      Unreachable }

\* the filings the submissions document may list
Catalogs ==
  LET
    AnnualFiling ==
    [form |-> "10-K", filing_date |-> ReportDate + 30, report_date |-> ReportDate,
     accession |-> OwnAccession, fy |-> FirstYear, fp |-> "FY"]
    QuarterFiling ==
    [form |-> "10-Q", filing_date |-> EarlierDate + 30, report_date |-> EarlierDate,
     accession |-> OtherAccession, fy |-> NoYear, fp |-> "Q2"]
    OldFiling ==
    [form |-> "10-K", filing_date |-> 0 - 500, report_date |-> 0 - 530,
     accession |-> "A3", fy |-> FirstYear - 2, fp |-> "FY"]
    CurrentReport ==
    [form |-> "8-K", filing_date |-> ReportDate + 40, report_date |-> NoDate,
     accession |-> "A3", fy |-> NoYear, fp |-> NoFp]
    LowerCaseQuarter ==
    [form |-> "10-Q", filing_date |-> EarlierDate + 30, report_date |-> EarlierDate,
     accession |-> OtherAccession, fy |-> FirstYear, fp |-> "q1"]
    UncodedQuarter ==
    [form |-> "10-Q", filing_date |-> ReportDate + 30, report_date |-> ReportDate,
     accession |-> "A3", fy |-> FirstYear, fp |-> NoFp]
  IN
    { <<>>, <<AnnualFiling>>, <<AnnualFiling, QuarterFiling>>,
      <<CurrentReport, QuarterFiling, OldFiling>>,
      <<UncodedQuarter, LowerCaseQuarter>> }

ValidModes_with_quarterly == {"none", "annual", "full", "quarterly"}
ValidModes == {"none", "annual", "full"}

\* the arguments of a run, the documents of the server (the company facts
\* hold nothing or one revenue fact of the annual filing), a new client, and
\* the cache directory before the run: empty, populated, or populated with
\* one file that does not decompress
InitRun ==
    /\ rn_config \in [user_agent : {"", "agent"},
                       segments_mode : ValidModes \cup {"quarterly"},
                       company_input : {<<"a", "b">>, <<"c">>, <<"z">>}, years : {1}, max_quarters : {0, 8},
                       current_year : {FirstYear}]
    /\ rn_world \in
          [tickers : {TickerRows}, recent : Catalogs,
           companyfacts :
              { NoFacts,
                [t \in AllTags |->
                    IF t = "Revenues"
                    THEN <<Fact(OwnAccession, "10-K", <<ReportDate - 270, ReportDate>>, 5)>>
                    ELSE <<>>],
                [t \in AllTags |->
                    IF t = "NetIncomeLoss"
                    THEN <<Fact("A3", "10-K", <<ReportDate - 270, ReportDate>>, 7)>>
                    ELSE <<>>] },
           index : IndexDocs,
           instance : InstanceDocs]
    /\ rn_pc = "config"
    /\ rn_company = NoCompany
    /\ rn_filings = <<>>
    /\ rn_facts = NoFacts
    /\ rn_i = 0
    /\ rn_periods = <<>>
    /\ rn_fetches = <<>>
    /\ rn_error = "none"
    /\ total_downloaded_bytes = 0
    /\ request_count = 0
    /\ last_request_ts = 0
    /\ cache \in
          { [u \in RunUrls |-> NoEntry], [u \in RunUrls |-> <<PlainByte>>] }
            \cup { [u \in RunUrls |-> IF u = bad THEN Truncated ELSE <<PlainByte>>] :
                     bad \in {TickersUrl, IndexUrl(OwnAccession), InstanceUrl(OwnAccession)} }
    /\ now = MinInterval
    /\ net_calls = 0
    /\ last = NoCall
    /\ rn_earlier = NoEarlierRun(cache)
    /\ rn_chosen = NoInstance
    /\ SelectIdle /\ PrimaryIdle /\ SegmentIdle

\* the exception a failed get raises: RuntimeError from the decoder and the
\* caps, URLError from urlopen
ErrorOf(call) == IF call.cause = "network" THEN "URLError" ELSE "RuntimeError"

\* client.get(url) of the run, recorded
RunFetch(url) ==
    /\ IF CacheHit(url, TRUE)
       THEN GetCached(url, TRUE)
       ELSE \E resp \in RunResponses : GetNetwork(url, TRUE, resp)
    /\ rn_fetches' = Append(rn_fetches, [url |-> url, kind |-> last'.kind, ok |-> last'.ok,
                                         cause |-> last'.cause])

\* the run ends with an exception
Raise(error) ==
    /\ rn_pc' = "raised"
    /\ rn_error' = error

\* lines 432-433 and 456-463: the checks of the arguments, then SecClient()
Configure ==
    /\ rn_pc = "config"
    /\ IF rn_config.user_agent = "" \/ rn_config.segments_mode \notin ValidModes
       THEN Raise("ValueError")
       ELSE rn_pc' = "resolve" /\ rn_error' = rn_error
    /\ UNCHANGED <<rn_config, rn_world, rn_company, rn_filings, rn_facts, rn_i, rn_periods,
                   rn_fetches, clientVars>>

\* line 464: company = resolve_company(client, company_input)
Resolve ==
    /\ rn_pc = "resolve"
    /\ RunFetch(TickersUrl)
    /\ IF ~last'.ok
       THEN Raise(ErrorOf(last')) /\ rn_company' = rn_company
       ELSE \E idx \in {-1, 0, 1} :   \* int(choice) - 1 for the answers to input()
               LET r == resolve_company(rn_world.tickers, rn_config.company_input, idx)
               IN  IF r.ok
                   THEN rn_company' = r.row /\ rn_pc' = "submissions" /\ rn_error' = rn_error
                   ELSE Raise("ValueError") /\ rn_company' = rn_company
    /\ UNCHANGED <<rn_config, rn_world, rn_filings, rn_facts, rn_i, rn_periods>>

\* line 465: filings = limit_filings_scope(collect_filings(get_submissions(...)))
FetchSubmissions ==
    /\ rn_pc = "submissions"
    /\ RunFetch(SubmissionsUrl)
    /\ IF ~last'.ok
       THEN Raise(ErrorOf(last')) /\ rn_filings' = rn_filings
       ELSE /\ rn_filings' = limit_filings_scope(
                                 collect_filings(rn_world.recent, rn_config.current_year,
                                                 rn_config.years),
                                 rn_config.max_quarters)
            /\ rn_pc' = "companyfacts"
            /\ rn_error' = rn_error
    /\ UNCHANGED <<rn_config, rn_world, rn_company, rn_facts, rn_i, rn_periods>>

\* where the loop over filings goes after the filing at index i
AfterFiling_first_only(i) == "finish"
AfterFiling(i) == IF i >= Len(rn_filings) THEN "finish" ELSE "filing"

\* line 466: companyfacts = get_companyfacts(client, cik)
FetchCompanyFacts ==
    /\ rn_pc = "companyfacts"
    /\ RunFetch(CompanyFactsUrl)
    /\ IF ~last'.ok
       THEN Raise(ErrorOf(last')) /\ UNCHANGED <<rn_facts, rn_i>>
       ELSE /\ rn_facts' = rn_world.companyfacts
            /\ rn_i' = 1
            /\ rn_pc' = AfterFiling(0)
            /\ rn_error' = rn_error
    /\ UNCHANGED <<rn_config, rn_world, rn_company, rn_filings, rn_periods>>

\* periods.append(...) for the filing at rn_i, then the next filing
AppendPeriod(s) ==
    /\ rn_periods' = Append(rn_periods, PeriodOf(rn_filings[rn_i], rn_facts, s))
    /\ rn_i' = rn_i + 1
    /\ rn_pc' = AfterFiling(rn_i)
    /\ rn_error' = rn_error

\* lines 468-475: the primary metrics of a filing and the decision on segments
StartFiling ==
    /\ rn_pc = "filing"
    /\ IF do_segments(rn_config.segments_mode, rn_filings[rn_i])
       THEN rn_pc' = "index" /\ UNCHANGED <<rn_i, rn_periods, rn_error>>
       ELSE AppendPeriod(SegmentsSkipped(rn_config.segments_mode, rn_filings[rn_i].form))
    /\ UNCHANGED <<rn_config, rn_world, rn_company, rn_filings, rn_facts, rn_fetches,
                   clientVars>>

\* _find_instance_doc: the get of index.json sits in try/except Exception,
\* which answers None for every exception
FetchIndex ==
    /\ rn_pc = "index"
    /\ RunFetch(IndexUrl(rn_filings[rn_i].accession))
    /\ IF ~last'.ok
       THEN AppendPeriod(SegmentsNotFound)
       ELSE IF ChosenInstance(rn_world.index, MaxFileSize) = NoInstance
            THEN AppendPeriod(SegmentsNotFound)
            ELSE rn_pc' = "instance" /\ UNCHANGED <<rn_i, rn_periods, rn_error>>
    /\ UNCHANGED <<rn_config, rn_world, rn_company, rn_filings, rn_facts>>

\* lines 319-374: the instance document is fetched and walked
FetchInstance ==
    /\ rn_pc = "instance"
    /\ RunFetch(InstanceUrl(rn_filings[rn_i].accession))
    /\ IF ~last'.ok
       THEN Raise(ErrorOf(last')) /\ UNCHANGED <<rn_i, rn_periods>>
       ELSE AppendPeriod(SegmentsOfDocument(rn_world.instance, rn_filings[rn_i]))
    /\ UNCHANGED <<rn_config, rn_world, rn_company, rn_filings, rn_facts>>

\* lines 488-494: the periods are sorted and the payload is returned
Finish ==
    /\ rn_pc = "finish"
    /\ rn_periods' = StableSort(rn_periods, "period")
    /\ rn_pc' = "returned"
    /\ UNCHANGED <<rn_config, rn_world, rn_company, rn_filings, rn_facts, rn_i, rn_fetches,
                   rn_error, clientVars>>

RunNext ==
    \/ Configure /\ UNCHANGED <<selVars, primVars, segVars, rn_earlier, rn_chosen>>
    \/ Resolve /\ UNCHANGED <<selVars, primVars, segVars, rn_earlier, rn_chosen>>
    \/ FetchSubmissions /\ UNCHANGED <<selVars, primVars, segVars, rn_earlier, rn_chosen>>
    \/ FetchCompanyFacts /\ UNCHANGED <<selVars, primVars, segVars, rn_earlier, rn_chosen>>
    \/ StartFiling /\ UNCHANGED <<selVars, primVars, segVars, rn_earlier, rn_chosen>>
    \/ FetchIndex /\ UNCHANGED <<selVars, primVars, segVars, rn_earlier, rn_chosen>>
    \/ FetchInstance /\ UNCHANGED <<selVars, primVars, segVars, rn_earlier, rn_chosen>>
    \/ Finish /\ UNCHANGED <<selVars, primVars, segVars, rn_earlier, rn_chosen>>

SpecRun == InitRun /\ [][RunNext]_vars

(***************************************************************************)
(* Two runs with the same arguments, one after the other, the second on    *)
(* the cache directory the first one left.                                 *)
(***************************************************************************)
\* build_financials is called again after it returned: a new SecClient on
\* the same cache directory
RunAgain_keeping_periods ==
    /\ rn_pc = "returned"
    /\ ~rn_earlier.returned
    /\ rn_earlier' = [returned |-> TRUE, company |-> rn_company, periods |-> rn_periods,
                      cache |-> rn_earlier.start, start |-> cache]
    /\ rn_pc' = "config"
    /\ rn_company' = NoCompany
    /\ rn_filings' = <<>>
    /\ rn_facts' = NoFacts
    /\ rn_i' = 0
    /\ rn_fetches' = <<>>
    /\ rn_error' = "none"
    /\ total_downloaded_bytes' = 0
    /\ request_count' = 0
    /\ last_request_ts' = 0
    /\ net_calls' = 0
    /\ last' = NoCall
    /\ UNCHANGED <<rn_config, rn_world, rn_periods, cache, now, rn_chosen>>
RunAgain ==
    /\ rn_pc = "returned"
    /\ ~rn_earlier.returned
    /\ rn_earlier' = [returned |-> TRUE, company |-> rn_company, periods |-> rn_periods,
                      cache |-> rn_earlier.start, start |-> cache]
    /\ rn_pc' = "config"
    /\ rn_company' = NoCompany
    /\ rn_filings' = <<>>
    /\ rn_facts' = NoFacts
    /\ rn_i' = 0
    /\ rn_periods' = <<>>
    /\ rn_fetches' = <<>>
    /\ rn_error' = "none"
    /\ total_downloaded_bytes' = 0
    /\ request_count' = 0
    /\ last_request_ts' = 0
    /\ net_calls' = 0
    /\ last' = NoCall
    /\ UNCHANGED <<rn_config, rn_world, cache, now, rn_chosen>>

RerunNext ==
    \/ RunNext
    \/ RunAgain /\ UNCHANGED <<selVars, primVars, segVars>>

SpecRerun == InitRun /\ [][RerunNext]_vars

(***************************************************************************)
(* Calls of the functions of a run on their own: collect_filings on a      *)
(* catalog and limit_filings_scope on a list of filings.                   *)
(***************************************************************************)
\* the ticker tables a lookup may read: none, one company, a company whose
\* ticker is part of the name of another, and seven companies of which six
\* have a name with the letter a
TickerTables ==
    { <<>>, TickerRows,
      << [cik |-> "0000000002", ticker |-> <<"B">>, name |-> <<"c", " ", "A">>],
         [cik |-> "0000000003", ticker |-> <<"C">>, name |-> <<"B", "b">>] >>,
      << [cik |-> "0000000004", ticker |-> <<"T", "1">>, name |-> <<"b", "a">>],
         [cik |-> "0000000005", ticker |-> <<"T", "2">>, name |-> <<"A", "b">>],
         [cik |-> "0000000006", ticker |-> <<"T", "3">>, name |-> <<"B", "b">>],
         [cik |-> "0000000007", ticker |-> <<"T", "4">>, name |-> <<"A", "a">>],
         [cik |-> "0000000008", ticker |-> <<"T", "5">>, name |-> <<"B", "a">>],
         [cik |-> "0000000009", ticker |-> <<"T", "6">>, name |-> <<"a", "c">>],
         [cik |-> "0000000010", ticker |-> <<"T", "7">>, name |-> <<"C", "a">>] >> }

\* the items a file index is made of for a direct call of the chooser: the
\* three of the test, a non-XML file and an item without a name, each with
\* or without the instance type, of no size, of 2000 bytes or of 200 KB
IndexItems ==
    { Item(name, type, size) : name \in {"", "abc_cal.xml", "foo.xml", InstanceName, "doc.htm"},
                               type \in {"EX-101.INS", "XML"},
                               size \in {0, 2000, 200 * 1024} }

\* either a catalog of at most MaxFilings entries (annual, quarterly and
\* current reports, filed in the current year or two years before, with or
\* without a report date, with a current, an old or no fiscal year) and any
\* cap from -1, or a ticker table and a company input, or a file index of at
\* most MaxItems items
CallsInit ==
    /\ \/ /\ rn_config \in
                [user_agent : {"agent"}, segments_mode : {"none"}, company_input : {<<"z">>},
                 years : {1}, max_quarters : (0 - 1)..MaxQuarters, current_year : {FirstYear}]
          /\ rn_world \in
                [tickers : {<<>>},
                 recent : SeqsUpTo({ [form |-> form, filing_date |-> dates[1],
                                      report_date |-> dates[2], accession |-> OwnAccession,
                                      fy |-> fy, fp |-> NoFp] :
                                        form \in Forms \cup {"8-K"},
                                        dates \in { <<EarlierDate + 30, EarlierDate>>,
                                                    <<ReportDate + 30, NoDate>>,
                                                    <<0 - 500, 0 - 530>> },
                                        fy \in {NoYear, FirstYear - 2, FirstYear} },
                                   MaxFilings),
                 companyfacts : {NoFacts}, index : {<<>>},
                 instance : {[contexts |-> <<>>, elements |-> <<>>]}]
       \/ /\ rn_config \in
                [user_agent : {"agent"}, segments_mode : {"none"},
                 company_input : { <<>>, <<"a">>, <<"A">>, <<"c">>, <<"c", " ">>, <<"b", "b">>,
                                   <<"a", "b">>, <<"z">> },
                 years : {1}, max_quarters : {0}, current_year : {FirstYear}]
          /\ rn_world \in
                [tickers : TickerTables, recent : {<<>>}, companyfacts : {NoFacts},
                 index : {<<>>}, instance : {[contexts |-> <<>>, elements |-> <<>>]}]
       \/ /\ rn_config \in
                [user_agent : {"agent"}, segments_mode : {"none"}, company_input : {<<"z">>},
                 years : {1}, max_quarters : {0}, current_year : {FirstYear}]
          /\ rn_world \in
                [tickers : {<<>>}, recent : {<<>>}, companyfacts : {NoFacts},
                 index : SeqsUpTo(IndexItems, MaxItems) \ {<<>>},
                 instance : {[contexts |-> <<>>, elements |-> <<>>]}]
    /\ rn_pc = "call"
    /\ rn_company = NoCompany
    /\ rn_filings = <<>>
    /\ rn_facts = NoFacts
    /\ rn_i = 0
    /\ rn_periods = <<>>
    /\ rn_fetches = <<>>
    /\ rn_error = "none"
    /\ rn_earlier = NoEarlierRun(<<>>)
    /\ rn_chosen = NoInstance
    /\ ClientIdle /\ SelectIdle /\ PrimaryIdle /\ SegmentIdle

\* filings = collect_filings(submissions, years)
CallCollect ==
    /\ rn_pc = "call"
    /\ rn_filings' = collect_filings(rn_world.recent, rn_config.current_year, rn_config.years)
    /\ rn_pc' = "collected"
    /\ UNCHANGED <<rn_config, rn_world, rn_company, rn_facts, rn_i, rn_periods, rn_fetches,
                   rn_error, rn_earlier, rn_chosen>>

\* filings = limit_filings_scope(filings, max_quarters)
CallLimit ==
    /\ rn_pc = "call"
    /\ rn_filings' = limit_filings_scope(rn_world.recent, rn_config.max_quarters)
    /\ rn_pc' = "limited"
    /\ UNCHANGED <<rn_config, rn_world, rn_company, rn_facts, rn_i, rn_periods, rn_fetches,
                   rn_error, rn_earlier, rn_chosen>>

\* company = resolve_company(client, company_input), for an answer of the
\* user to the prompt
CallResolve ==
    /\ rn_pc = "call"
    /\ \E idx \in (0 - 1)..5 :
          LET r == resolve_company(rn_world.tickers, rn_config.company_input, idx)
          IN  /\ rn_company' = r.row
              /\ rn_pc' = IF r.ok THEN "resolved" ELSE "raised"
              /\ rn_error' = IF r.ok THEN rn_error ELSE <<r.error, r.names>>
    /\ UNCHANGED <<rn_config, rn_world, rn_filings, rn_facts, rn_i, rn_periods, rn_fetches,
                   rn_earlier, rn_chosen>>

\* chosen = _choose_instance_from_index(items)
CallChoose ==
    /\ rn_pc = "call"
    /\ rn_chosen' = _choose_instance_from_index(rn_world.index)
    /\ rn_pc' = "chosen"
    /\ UNCHANGED <<rn_config, rn_world, rn_company, rn_filings, rn_facts, rn_i, rn_periods,
                   rn_fetches, rn_error, rn_earlier>>

CallsNext ==
    \/ CallCollect /\ UNCHANGED <<clientVars, selVars, primVars, segVars>>
    \/ CallLimit /\ UNCHANGED <<clientVars, selVars, primVars, segVars>>
    \/ CallResolve /\ UNCHANGED <<clientVars, selVars, primVars, segVars>>
    \/ CallChoose /\ UNCHANGED <<clientVars, selVars, primVars, segVars>>

SpecCalls == CallsInit /\ [][CallsNext]_vars

(***************************************************************************)
(* prune_cache on a cache directory: the files are records of a name, a    *)
(* modification time in days and a size.                                   *)
(***************************************************************************)
\* sum(p.stat().st_size for p in files)
RECURSIVE TotalSize(_)
TotalSize(files) ==
    IF files = <<>> THEN 0 ELSE files[1].size + TotalSize(Tail(files))

\* the eviction loop over the files sorted by st_mtime
Evict_one(files, total, max_total_bytes) == Tail(files)
RECURSIVE Evict(_, _, _)
Evict(files, total, max_total_bytes) ==
    IF files = <<>> \/ total <= max_total_bytes THEN files
    ELSE Evict(Tail(files), total - files[1].size, max_total_bytes)

\* the files left by prune_cache called at the time t
prune_cache(files, t, max_age_days, max_total_bytes) ==
    LET recent == SelectSeq(files, LAMBDA f : ~(f.mtime < t - max_age_days))
    IN  IF TotalSize(recent) <= max_total_bytes THEN recent
        ELSE Evict(StableSort(recent, "mtime"), TotalSize(recent), max_total_bytes)

\* a directory of at most MaxFiles files, written on one of three days, of
\* 0 to 2 bytes; the day is the last of the three
InitPrune ==
    /\ cache \in { [k \in DOMAIN q |-> [name |-> k, mtime |-> q[k][1], size |-> q[k][2]]] :
                     q \in SeqsUpTo((1..3) \X (0..2), MaxFiles) }
    /\ now = 3
    /\ last = NoCall
    /\ total_downloaded_bytes = 0
    /\ request_count = 0
    /\ last_request_ts = 0
    /\ net_calls = 0
    /\ SelectIdle /\ PrimaryIdle /\ SegmentIdle /\ RunIdle

\* prune_cache(cache_dir, max_age_days, max_total_gb), once
Prune ==
    /\ last = NoCall
    /\ \E max_age_days \in 0..MaxAgeDays, max_total_bytes \in 0..MaxCacheBytes :
          /\ cache' = prune_cache(cache, now, max_age_days, max_total_bytes)
          /\ last' = [kind |-> "prune", max_age_days |-> max_age_days,
                      max_total_bytes |-> max_total_bytes, before |-> cache]
    /\ UNCHANGED <<total_downloaded_bytes, request_count, last_request_ts, now, net_calls>>

PruneNext == Prune /\ UNCHANGED <<selVars, primVars, segVars, runVars>>

SpecPrune == InitPrune /\ [][PruneNext]_vars

(***************************************************************************)
(* Claims about the client.                                                *)
(***************************************************************************)
\* a step that is a get() call through the network
IsNetworkStep == net_calls' # net_calls
\* a step that is a get() call
IsGetStep == last' # last \/ IsNetworkStep

\* C1: after any sequence of get() calls the running total never exceeds the
\* run cap, and a fetch that was accepted (counted) decoded to at most the
\* per-file cap and left the total at or under the run cap.
C1_ByteBudgets ==
    /\ total_downloaded_bytes <= MaxTotalDownload
    /\ (last.kind = "net" /\ last.ok) =>
           /\ Len(last.data) <= MaxFileSize
           /\ Len(last.data) <= total_downloaded_bytes
    /\ \A u \in Urls : cache[u] \in LegacyEntries \/ Len(cache[u]) <= MaxFileSize

\* a fetch refused for the run cap after earlier fetches were counted
C1_Witness ==
    last.kind = "net" /\ last.cause = "run_cap" /\ total_downloaded_bytes > 0

\* C2: a failed network fetch leaves total_downloaded_bytes, request_count
\* and every cache entry as they were; a successful one adds its decoded size,
\* adds one request and writes the entry of its URL; nothing else changes
\* these three.
C2_FailedFetchChangesNothing ==
    [][ /\ IsNetworkStep =>
             IF last'.ok
             THEN /\ total_downloaded_bytes' = total_downloaded_bytes + Len(last'.data)
                  /\ request_count' = request_count + 1
                  /\ cache' = [cache EXCEPT ![last'.url] = last'.data]
             ELSE /\ total_downloaded_bytes' = total_downloaded_bytes
                  /\ request_count' = request_count
                  /\ cache' = cache
        /\ ~IsNetworkStep =>
             /\ total_downloaded_bytes' = total_downloaded_bytes
             /\ request_count' = request_count
             /\ cache' = cache ]_vars

\* a fetch with use_cache=False that failed while the URL had a cache entry
C2_Witness ==
    /\ last.kind = "net" /\ ~last.ok /\ last.cause \in {"decompress", "file_cap", "run_cap"}
    /\ cache[last.url] # NoEntry
    /\ request_count > 0

\* C3: get(url, use_cache=True) on a URL with a cache entry answers from that
\* entry (decoded by signature) without a network request and leaves the
\* counters and the throttle timestamp unchanged; with use_cache=False the
\* network path is taken: the throttle runs and both caps are checked.
C3_CacheHitFrame ==
    [][ IsGetStep =>
          IF last'.use_cache /\ cache[last'.url] # NoEntry
          THEN /\ last'.kind = "hit"
               /\ ~IsNetworkStep
               /\ total_downloaded_bytes' = total_downloaded_bytes
               /\ request_count' = request_count
               /\ last_request_ts' = last_request_ts
               /\ LET dec == _decode_response_bytes(cache[last'.url], NoHeader)
                  IN  last'.ok = dec.ok /\ (dec.ok => last'.data = dec.data)
          ELSE /\ last'.kind = "net"
               /\ IsNetworkStep
               /\ last_request_ts' >= last_request_ts + MinInterval
               /\ last_request_ts' >= now
               /\ last'.ok => /\ Len(last'.data) <= MaxFileSize
                              /\ total_downloaded_bytes' <= MaxTotalDownload ]_vars

\* a cache hit while the run budget is used up
C3_Witness ==
    /\ last.kind = "hit" /\ last.ok
    /\ total_downloaded_bytes = MaxTotalDownload

(***************************************************************************)
(* Claims about fact selection.                                            *)
(***************************************************************************)
\* the facts of the tag filed under the filing's own accession
OwnFacts == {i \in DOMAIN sf_facts : sf_facts[i].accn = sf_filing.accession}
\* the facts of the tag that match the filing's report date and form
DateFormFacts ==
    {i \in DOMAIN sf_facts : /\ sf_facts[i].end = sf_filing.report_date
                             /\ sf_facts[i].form = sf_filing.form}
InSeq(x, q) == \E i \in DOMAIN q : q[i] = x

\* C5: the fact is taken from the facts of the filing's accession whenever
\* one exists; otherwise, and only when the filing has a report date, from
\* the facts whose end is the report date and whose form is the filing's
\* form; when both sets are empty no fact is selected and no note produced.
C5_AccessionThenDateForm ==
    /\ sf_pc \in {"matched", "filtered", "done"} =>
          /\ OwnFacts # {} =>
                \A i \in DOMAIN sf_cands : sf_cands[i].accn = sf_filing.accession
          /\ OwnFacts = {} =>
                \A i \in DOMAIN sf_cands :
                    /\ sf_filing.report_date # NoDate
                    /\ sf_cands[i].end = sf_filing.report_date
                    /\ sf_cands[i].form = sf_filing.form
    /\ sf_pc = "done" =>
          /\ OwnFacts # {} =>
                sf_fact # NoFact /\ sf_fact.accn = sf_filing.accession
          /\ (OwnFacts = {} /\ sf_fact # NoFact) =>
                /\ sf_filing.report_date # NoDate
                /\ sf_fact.accn # sf_filing.accession
                /\ sf_fact.end = sf_filing.report_date
                /\ sf_fact.form = sf_filing.form
                /\ InSeq(sf_fact, sf_facts)
          /\ (OwnFacts = {} /\ (sf_filing.report_date = NoDate \/ DateFormFacts = {})) =>
                sf_fact = NoFact /\ sf_notes = <<>>

\* a fact selected by the fallback while a fact of another form ends on the
\* report date too
C5_Witness ==
    /\ sf_pc = "done" /\ OwnFacts = {} /\ sf_fact # NoFact
    /\ \E i \in DOMAIN sf_facts : /\ sf_facts[i].end = sf_filing.report_date
                                  /\ sf_facts[i].form # sf_filing.form

\* end minus start of a fact that has both, in days
HasDuration(f) == f.start # NoDate /\ f.end # NoDate
Days(f) == f.end - f.start
WithinQuarter(f) == HasDuration(f) /\ Days(f) <= QuarterMaxDays

\* C6: for a 10-Q, if a candidate has a duration of at most 105 days the
\* selected fact has one too and there is no year-to-date note; if none has,
\* all candidates stay eligible and the note is appended; for a 10-K there is
\* no filter and no note.
C6_QuarterDurationFilter ==
    (sf_pc = "done" /\ sf_fact # NoFact) =>
        LET matched == MatchCandidates(sf_facts, sf_filing)
        IN  IF sf_filing.form = "10-Q"
            THEN IF \E i \in DOMAIN matched : WithinQuarter(matched[i])
                 THEN WithinQuarter(sf_fact) /\ sf_notes = <<>>
                 ELSE sf_cands = matched /\ sf_notes = <<YtdNote>>
            ELSE sf_cands = matched /\ sf_notes = <<>>

\* C7: the selected fact has the shortest duration of the candidates that
\* remain after matching and the quarterly filter, and among those of that
\* duration the latest end date (stated for candidates that all have a
\* duration of at least one day).
C7_ShortestThenLatestEnd ==
    (/\ sf_pc = "done" /\ sf_fact # NoFact
     /\ \A i \in DOMAIN sf_cands : HasDuration(sf_cands[i]) /\ Days(sf_cands[i]) > 0) =>
        /\ InSeq(sf_fact, sf_cands)
        /\ \A i \in DOMAIN sf_cands : Days(sf_fact) <= Days(sf_cands[i])
        /\ \A i \in DOMAIN sf_cands :
               Days(sf_cands[i]) = Days(sf_fact) => sf_cands[i].end <= sf_fact.end

(***************************************************************************)
(* Claims about primary metric extraction.                                 *)
(***************************************************************************)
MetricFields == {"revenue", "profit_net_income", "capex"}
\* every alias tag of a metric, in the order tried
AliasTags(field) ==
    CASE field = "revenue" -> RevenueTags
      [] field = "profit_net_income" -> ProfitTags
      [] field = "capex" -> CapexTier1 \o CapexTier2
\* the tag has a fact selected for the filing, and the fact has a value
TagYields(tag) ==
    LET sel == _select_fact_for_filing(TagEntries(pm_facts, tag), pm_filing)
    IN  sel.fact # NoFact /\ sel.fact.val # NoVal

\* C8: a metric is null exactly when none of its alias tags yields a
\* selected fact with a value, and then the missing list has an entry for
\* the metric whose reason names all the alias tags tried for it (for
\* capital expenditure: both tiers).
C8_NullIffNoTagAndEntryNamesAllTags ==
    pm_pc = "done" =>
        \A m \in MetricFields :
            /\ (pm_out[m] = Null) <=> (\A t \in Range(AliasTags(m)) : ~TagYields(t))
            /\ pm_out[m] = Null =>
                  \E i \in DOMAIN pm_missing :
                      /\ pm_missing[i].field = m
                      /\ Range(AliasTags(m)) \subseteq Range(pm_missing[i].tags)

(***************************************************************************)
(* Claims about segment extraction.                                        *)
(***************************************************************************)
\* the texts that are plain numeric literals
NumericTexts == { <<"d">>, <<" ", "-", "d", "d", ".", "d", " ">> }
\* the segment list a tag belongs to
TagsOfList(key) ==
    CASE key = "revenue_by_segment" ->
            {"RevenueFromContractWithCustomerExcludingAssessedTax", "Revenues", "SalesRevenueNet"}
      [] key = "profit_by_segment" -> {"NetIncomeLoss"}
      [] key = "capex_by_segment" ->
            {"PaymentsToAcquirePropertyPlantAndEquipment", "CapitalExpenditures"}

\* C9: a fact whose tag is in a metric's tag set, whose text is a plain
\* numeric literal, whose context has at least one dimensional member and
\* ends on the filing's report date (when that is known) appends exactly one
\* row per member of the context to the metric's list, each labelled with
\* the member's local name; a fact in an undimensioned or unknown context,
\* with non-numeric text, with a context ending on another date, or with a
\* tag of another list appends nothing.
C9_OneRowPerMember ==
    /\ \A t \in Texts : IsPlainNumber(Strip(t)) <=> t \in NumericTexts
    /\ [][ sg_walked' = sg_walked + 1 =>
            LET e       == sg_elem'
                known   == e.contextRef \in CtxIds /\ sg_ctx[e.contextRef].present
                c       == IF known THEN sg_ctx[e.contextRef] ELSE NoCtx
                numeric == e.text \in NumericTexts
                rd      == sg_filing.report_date
            IN  \A key \in Range(SegmentFields) :
                  LET old == sg_out[key]
                      new == sg_out'[key]
                  IN  IF /\ known /\ e.tag \in TagsOfList(key) /\ numeric
                         /\ c.members # <<>>
                         /\ (rd # NoDate => c.end = rd)
                      THEN /\ Len(new) = Len(old) + Len(c.members)
                           /\ SubSeq(new, 1, Len(old)) = old
                           /\ \A k \in 1..Len(c.members) :
                                 LET row == new[Len(old) + k]
                                     m   == c.members[k].member
                                 IN  /\ row.segment = m[Len(m)]
                                     /\ row.member = m
                                     /\ row.dimension = c.members[k].dimension
                                     /\ row.xbrl_tag = e.tag
                      ELSE IF \/ ~known \/ c.members = <<>> \/ ~numeric
                              \/ e.tag \notin TagsOfList(key)
                              \/ (rd # NoDate /\ c.end # NoDate /\ c.end # rd)
                      THEN new = old
                      ELSE TRUE ]_vars

\* a revenue fact in a context of two members, on the report date, gave two
\* rows with the two local names
C9_Witness ==
    /\ sg_pc = "walk" /\ sg_filing.report_date = ReportDate
    /\ sg_elem.tag = "Revenues" /\ sg_elem.contextRef \in CtxIds
    /\ Len(sg_ctx[sg_elem.contextRef].members) = 2
    /\ sg_ctx[sg_elem.contextRef].end = ReportDate
    /\ Len(sg_out["revenue_by_segment"]) = 2
    /\ sg_out["revenue_by_segment"][1].segment = "ServicesMember"
    /\ sg_out["revenue_by_segment"][2].segment = "ProductMember"

\* C10: after the walk the missing list has an entry for a segment list
\* exactly when that list is empty, one entry per empty list and no other.
C10_MissingPerEmptyList ==
    sg_pc = "done" =>
        /\ \A key \in Range(SegmentFields) :
              /\ (sg_out[key] = <<>>) <=> (\E i \in DOMAIN sg_missing : sg_missing[i].field = key)
              /\ Cardinality({i \in DOMAIN sg_missing : sg_missing[i].field = key}) <= 1
        /\ \A i \in DOMAIN sg_missing : sg_missing[i].field \in Range(SegmentFields)

\* segment revenue present, segment capex and profit absent
C10_Witness ==
    /\ sg_pc = "done"
    /\ sg_out["revenue_by_segment"] # <<>>
    /\ sg_out["capex_by_segment"] = <<>>
    /\ Len(sg_missing) = 2

(***************************************************************************)
(* Claims about a run.                                                     *)
(***************************************************************************)
\* the failures the client raises by itself: a body that does not
\* decompress, a file over the per-file cap, a run over the run cap
ClientFailures == {"decompress", "file_cap", "run_cap"}

\* the gets of the run that ended in such a failure
FailedFetches ==
    {i \in DOMAIN rn_fetches : ~rn_fetches[i].ok /\ rn_fetches[i].cause \in ClientFailures}

\* C4: once a get of the run has failed with a decompression failure, a
\* per-file cap violation or a run cap violation, in whichever component
\* made the get, the run has ended by raising that error: the failed get is
\* the last get of the run, no payload is returned and no period is built
\* after it that turns the failure into a missing-data entry.
C4_ClientFailureEndsTheRun ==
    FailedFetches # {} =>
        /\ rn_pc = "raised"
        /\ rn_error = "RuntimeError"
        /\ FailedFetches = {Len(rn_fetches)}

\* the entries of a period's missing_data that are about its segments
SegmentEntries(p) ==
    SelectSeq(p.missing_data,
              LAMBDA e : e.field \in Range(SegmentFields) \cup {"segment_metrics"})

\* every item of the index is a linkbase file, a file that is no XML file, a
\* blocked artifact or an artifact over the per-file cap, or there is none
NoCandidateOffered ==
    \A i \in DOMAIN rn_world.index :
        \/ rn_world.index[i].name \in {"abc_cal.xml", "FOO_PRE.XML"}
        \/ rn_world.index[i].name \in {"", "doc.htm", "schema.xsd"}
        \/ rn_world.index[i].name = "foo.pdf"
        \/ rn_world.index[i].size > MaxFileSize

\* the gets of the run for the file index of the filing with accession acc
\* that succeeded
IndexFetched(acc) ==
    \E k \in DOMAIN rn_fetches : rn_fetches[k].url = IndexUrl(acc) /\ rn_fetches[k].ok

\* C11: when the fetched file index of a filing offers no instance-document
\* candidate, segment extraction ends for that filing with three empty
\* segment lists and a single missing entry (field segment_metrics, with the
\* reason), the run does not raise, and the filing's instance document is
\* never fetched.
C11_NoCandidateFailsSoft ==
    /\ [](\A acc \in Accessions :
            (IndexFetched(acc) /\ NoCandidateOffered) =>
                \A k \in DOMAIN rn_fetches : rn_fetches[k].url # InstanceUrl(acc))
    /\ [][ (rn_pc = "index" /\ last'.ok /\ NoCandidateOffered) =>
              /\ rn_pc' \in {"filing", "finish"}
              /\ rn_error' = "none"
              /\ Len(rn_fetches') = Len(rn_fetches) + 1
              /\ rn_periods' # rn_periods
              /\ LET p == rn_periods'[Len(rn_periods')]
                 IN  /\ p.filing.accession = rn_filings[rn_i].accession
                     /\ p.revenue_by_segment = <<>>
                     /\ p.profit_by_segment = <<>>
                     /\ p.capex_by_segment = <<>>
                     /\ Len(SegmentEntries(p)) = 1
                     /\ SegmentEntries(p)[1].field = "segment_metrics"
                     /\ SegmentEntries(p)[1].reason = "XBRL instance XML not found for filing."
          ]_vars

\* the index was fetched; it lists an instance document, which is over the
\* per-file cap; the period of the filing is built
C11_Witness ==
    /\ IndexFetched(OwnAccession)
    /\ NoCandidateOffered
    /\ \E i \in DOMAIN rn_world.index : rn_world.index[i].name = InstanceName
    /\ \E j \in DOMAIN rn_periods : rn_periods[j].filing.accession = OwnAccession

\* the gets of the run for a url
Fetched(url) == \E k \in DOMAIN rn_fetches : rn_fetches[k].url = url

\* the mode asks for the segments of a filing of this form
SegmentsWanted(form) ==
    \/ rn_config.segments_mode = "full"
    \/ rn_config.segments_mode = "annual" /\ form = "10-K"

\* C12: the file index of a filing is requested exactly when the mode is
\* full, or annual and the filing a 10-K; for every other filing no index
\* and no instance document is fetched, its period has three empty segment
\* lists and exactly one segment entry in missing_data, with field
\* segment_metrics and a reason citing the configured mode, and the period
\* carries the primary metrics extracted for the filing.
C12_SegmentsByMode ==
    /\ \A i \in DOMAIN rn_filings :
          (Fetched(IndexUrl(rn_filings[i].accession))
              \/ Fetched(InstanceUrl(rn_filings[i].accession)))
          => SegmentsWanted(rn_filings[i].form)
    /\ \A j \in DOMAIN rn_periods :
          LET p == rn_periods[j]
              f == Only({g \in Range(rn_filings) : g.accession = p.filing.accession})
          IN  /\ Fetched(IndexUrl(f.accession)) <=> SegmentsWanted(f.form)
              /\ ~SegmentsWanted(f.form) =>
                    /\ ~Fetched(InstanceUrl(f.accession))
                    /\ p.revenue_by_segment = <<>>
                    /\ p.profit_by_segment = <<>>
                    /\ p.capex_by_segment = <<>>
                    /\ Len(SegmentEntries(p)) = 1
                    /\ SegmentEntries(p)[1].field = "segment_metrics"
                    /\ SegmentEntries(p)[1].mode = rn_config.segments_mode
                    /\ p.revenue = extract_primary_metrics(rn_facts, f).out.revenue
                    /\ p.profit_net_income
                          = extract_primary_metrics(rn_facts, f).out.profit_net_income
                    /\ p.capex = extract_primary_metrics(rn_facts, f).out.capex

\* a returned payload of mode annual with the period of a 10-K and the
\* period of a 10-Q, a revenue in one of them
C12_Witness ==
    /\ rn_pc = "returned"
    /\ rn_config.segments_mode = "annual"
    /\ \E j \in DOMAIN rn_periods : rn_periods[j].filing.form = "10-Q"
    /\ \E j \in DOMAIN rn_periods :
          rn_periods[j].filing.form = "10-K" /\ rn_periods[j].revenue # Null

\* the fields named by the missing_data entries of a period
MissingFields(p) == { p.missing_data[k].field : k \in DOMAIN p.missing_data }

\* every unpopulated field of a period has its entry
Explained(p) ==
    /\ p.revenue = Null => "revenue" \in MissingFields(p)
    /\ p.profit_net_income = Null => "profit_net_income" \in MissingFields(p)
    /\ p.capex = Null => "capex" \in MissingFields(p)
    /\ \A k \in DOMAIN SegmentFields :
          p[SegmentFields[k]] = <<>> =>
              \/ SegmentFields[k] \in MissingFields(p)
              \/ "segment_metrics" \in MissingFields(p)
    /\ p.forecasted_capex = <<>> => "forecasted_capex" \in MissingFields(p)

\* C13: in every returned payload, every period has a missing_data entry
\* for each null primary metric, for each empty segment list (an entry for
\* that list or for segment_metrics) and for its empty forecasted_capex.
C13_UnpopulatedFieldsExplained ==
    rn_pc = "returned" => \A j \in DOMAIN rn_periods : Explained(rn_periods[j])

\* a returned payload of two periods in which every metric is null and
\* every list empty, one period with the segments skipped by the mode and
\* one with a parsed instance document without dimensional facts
C13_Witness ==
    /\ rn_pc = "returned"
    /\ Len(rn_periods) = 2
    /\ \A j \in DOMAIN rn_periods :
          /\ rn_periods[j].revenue = Null
          /\ rn_periods[j].profit_net_income = Null
          /\ rn_periods[j].capex = Null
          /\ \A k \in DOMAIN SegmentFields : rn_periods[j][SegmentFields[k]] = <<>>
    /\ \E j \in DOMAIN rn_periods : "segment_metrics" \in MissingFields(rn_periods[j])
    /\ \E j \in DOMAIN rn_periods : "capex_by_segment" \in MissingFields(rn_periods[j])

\* the value of a metric is the value of a fact of its tag that was
\* reported under the accession of the period's filing
FromOwnFiling(p, m) ==
    \E k \in DOMAIN TagEntries(rn_facts, m.xbrl_tag) :
        /\ TagEntries(rn_facts, m.xbrl_tag)[k].accn = p.filing.accession
        /\ TagEntries(rn_facts, m.xbrl_tag)[k].val = m.value

\* C14: a returned payload has exactly one period per scoped filing, with
\* the accession of that filing, and every primary metric of a period has
\* the value of a fact reported under the accession of the period's filing.
C14_OnePeriodPerFilingOwnFacts ==
    rn_pc = "returned" =>
        /\ Len(rn_periods) = Len(rn_filings)
        /\ \A i \in DOMAIN rn_filings :
              Cardinality({ j \in DOMAIN rn_periods :
                  rn_periods[j].filing.accession = rn_filings[i].accession }) = 1
        /\ \A j \in DOMAIN rn_periods :
              LET p == rn_periods[j]
              IN  /\ p.revenue # Null => FromOwnFiling(p, p.revenue)
                  /\ p.profit_net_income # Null => FromOwnFiling(p, p.profit_net_income)
                  /\ p.capex # Null => FromOwnFiling(p, p.capex)

\* the triple of p does not come after the triple of q
TripleAtMost(p, q) ==
    \/ p.fiscal_year < q.fiscal_year
    \/ p.fiscal_year = q.fiscal_year
         /\ FiscalRank(p.fiscal_period) < FiscalRank(q.fiscal_period)
    \/ p.fiscal_year = q.fiscal_year
         /\ p.fiscal_period = q.fiscal_period
         /\ p.period_end <= q.period_end

\* C15: the periods of a returned payload are in ascending order of
\* (fiscal_year, fiscal_period, period_end).
C15_PeriodsSorted ==
    rn_pc = "returned" =>
        \A j, k \in DOMAIN rn_periods :
            j < k => TripleAtMost(rn_periods[j], rn_periods[k])

\* a returned payload whose annual period comes before a quarterly period
\* of the same fiscal year that ends earlier: the order of the filings by
\* date is not the order of the periods
C15_Witness ==
    /\ rn_pc = "returned"
    /\ Len(rn_periods) = 2
    /\ rn_periods[1].fiscal_period = "FY"
    /\ rn_periods[1].period_end > rn_periods[2].period_end
    /\ rn_filings[1].accession = rn_periods[2].filing.accession

\* the labels of the payload schema
PeriodLabels == {"FY", "Q1", "Q2", "Q3", "Q4", "Q?"}

\* C16: every period of a returned payload has a fiscal_period among FY,
\* Q1, Q2, Q3, Q4 and Q?: FY for an annual filing, the quarter label for a
\* quarterly filing whose code denotes one of Q1 to Q4, Q? for a quarterly
\* filing with another code or none.
C16_FiscalPeriodLabels ==
    rn_pc = "returned" =>
        \A j \in DOMAIN rn_periods :
            LET p == rn_periods[j]
                f == Only({g \in Range(rn_filings) : g.accession = p.filing.accession})
            IN  /\ p.fiscal_period \in PeriodLabels
                /\ f.form = "10-K" => p.fiscal_period = "FY"
                /\ f.form = "10-Q" /\ Upper(f.fp) \in {"Q1", "Q2", "Q3", "Q4"}
                      => p.fiscal_period = Upper(f.fp)
                /\ f.form = "10-Q" /\ Upper(f.fp) \notin {"Q1", "Q2", "Q3", "Q4"}
                      => p.fiscal_period = "Q?"

(***************************************************************************)
(* Claims about two runs.                                                  *)
(***************************************************************************)
\* the cache directory holds a file for every document a run asks for
Populated(dir) == \A u \in RunUrls : dir[u] # NoEntry

Occurrences(q, r) == Cardinality({ k \in DOMAIN q : q[k] = r })

\* q is in ascending order of (report date or else filing date, form)
AscendingByDateForm(q) ==
    \A j, k \in DOMAIN q :
        j < k =>
            \/ ReportOrFilingDate(q[j]) < ReportOrFilingDate(q[k])
            \/ ReportOrFilingDate(q[j]) = ReportOrFilingDate(q[k])
                 /\ FormRank(q[j].form) <= FormRank(q[k].form)

\* the entry was filed before the cutoff year and its fiscal year is known
\* and before the cutoff year
BothSignalsOld(e) ==
    /\ YearOf(e.filing_date) < rn_config.current_year - rn_config.years
    /\ e.fy # NoYear
    /\ e.fy < rn_config.current_year - rn_config.years

\* C18: collect_filings returns each 10-K and 10-Q entry of the catalog as
\* often as the catalog lists it, except the entries filed before the
\* cutoff year whose fiscal year is known and before the cutoff year, and
\* nothing else, in ascending order of (report date or else filing date,
\* form).
C18_CollectFilings ==
    rn_pc = "collected" =>
        /\ \A e \in Range(rn_world.recent) \cup Range(rn_filings) :
              Occurrences(rn_filings, e)
                = IF e.form \in {"10-K", "10-Q"} /\ ~BothSignalsOld(e)
                  THEN Occurrences(rn_world.recent, e)
                  ELSE 0
        /\ AscendingByDateForm(rn_filings)

\* collect_filings returned, in another order than the catalog's, an
\* annual entry with an old fiscal year filed this year and a quarterly
\* entry filed before the cutoff without a fiscal year
C18_Witness ==
    /\ rn_pc = "collected"
    /\ Len(rn_world.recent) = 2
    /\ rn_filings = <<rn_world.recent[2], rn_world.recent[1]>>
    /\ rn_filings[1].form = "10-Q"
    /\ rn_filings[1].fy = NoYear
    /\ YearOf(rn_filings[1].filing_date) < rn_config.current_year - rn_config.years
    /\ rn_filings[2].form = "10-K"
    /\ rn_filings[2].fy < rn_config.current_year - rn_config.years
    /\ rn_filings[2].fy # NoYear

\* the 10-Q filings of q
QuarterlyIn(q) == { k \in DOMAIN q : q[k].form = "10-Q" }

\* C19: for every list of filings and every cap N (a negative cap counted
\* as none), limit_filings_scope returns every 10-K of the list, no more
\* 10-Q filings than N, no filing more often than the list holds it, no
\* 10-Q while it leaves out a 10-Q with a later report-or-filing date, and
\* the result in ascending order of (report date or else filing date,
\* form).
C19_LimitFilingsScope ==
    rn_pc = "limited" =>
        /\ \A f \in Range(rn_world.recent) :
              f.form = "10-K" => Occurrences(rn_filings, f) = Occurrences(rn_world.recent, f)
        /\ Cardinality(QuarterlyIn(rn_filings))
              <= (IF rn_config.max_quarters < 0 THEN 0 ELSE rn_config.max_quarters)
        /\ \A f \in Range(rn_filings) :
              Occurrences(rn_filings, f) <= Occurrences(rn_world.recent, f)
        /\ \A kept \in Range(rn_filings), dropped \in Range(rn_world.recent) :
              ( /\ kept.form = "10-Q"
                /\ dropped.form = "10-Q"
                /\ Occurrences(rn_filings, dropped) < Occurrences(rn_world.recent, dropped) )
              => ReportOrFilingDate(dropped) <= ReportOrFilingDate(kept)
        /\ AscendingByDateForm(rn_filings)

(***************************************************************************)
(* Claims about the company lookup.                                        *)
(***************************************************************************)
\* the rows whose ticker is the input but for the case of the letters
TickerMatches ==
    { k \in DOMAIN rn_world.tickers :
        UpperText(rn_world.tickers[k].ticker) = UpperText(rn_config.company_input) }

\* the rows whose name holds the input but for the case of the letters
NameMatches ==
    { r \in Range(rn_world.tickers) :
        Contains(LowerText(r.name), LowerText(rn_config.company_input)) }

\* the first five of them by name
FirstFiveByName ==
    { r \in NameMatches :
        Cardinality({ q \in NameMatches : TextLess(q.name, r.name) }) < 5 }

\* C20: resolve_company returns the row whose ticker equals the input but
\* for case whenever there is one; otherwise the row it returns is one of
\* the first five, by name, of the rows whose name contains the input but
\* for case, and with no such row the call fails with an error that names
\* the input.
C20_ResolveCompany ==
    rn_pc \in {"resolved", "raised"} =>
        IF TickerMatches # {}
        THEN /\ rn_pc = "resolved"
             /\ \E k \in TickerMatches : rn_company = rn_world.tickers[k]
        ELSE /\ rn_pc = "resolved" => rn_company \in FirstFiveByName
             /\ FirstFiveByName = {} =>
                   /\ rn_pc = "raised"
                   /\ rn_error = <<"Could not resolve company input", rn_config.company_input>>

(***************************************************************************)
(* More claims about the client.                                           *)
(***************************************************************************)
\* C21: a request of a client that has sent one before, whatever the URLs
\* and whether or not the earlier request succeeded, is sent at least
\* MinInterval after the earlier one passed the throttle, and never before
\* the time at which get was called.
C21_MinIntervalBetweenRequests ==
    [][ (IsNetworkStep /\ net_calls > 0)
            => /\ last_request_ts' - last_request_ts >= MinInterval
               /\ last_request_ts' >= now
               /\ now' = last_request_ts' ]_vars

\* two requests sent one right after the other, both failed: the second
\* was sent MinInterval after the first, at the end of the wait
C21_Witness ==
    /\ net_calls = 2
    /\ request_count = 0
    /\ last_request_ts = 2 * MinInterval
    /\ now = last_request_ts

(***************************************************************************)
(* More claims about a run.                                                *)
(***************************************************************************)
\* C22: a run started with an empty user agent, or with a segments mode
\* other than none, annual and full, raises ValueError, and it does so
\* before any get: nothing was requested from the server and the cache
\* directory is as it was.
C22_ConfigurationErrorsFirst ==
    ( /\ rn_pc \notin {"idle", "config"}
      /\ \/ rn_config.user_agent = ""
         \/ rn_config.segments_mode \notin {"none", "annual", "full"} )
    => /\ rn_pc = "raised"
       /\ rn_error = "ValueError"
       /\ rn_fetches = <<>>
       /\ net_calls = 0
       /\ cache = rn_earlier.start

\* a run with a user agent and the mode quarterly has raised, the cache
\* directory holding no file yet
C22_Witness ==
    /\ rn_pc = "raised"
    /\ rn_config.user_agent = "agent"
    /\ rn_config.segments_mode = "quarterly"
    /\ \A u \in RunUrls : cache[u] = NoEntry

\* the last get read the body with the header and answered x, or, on the
\* network, was refused for one of the two caps
AnsweredAs(x) ==
    IF last.ok THEN last.data = x
    ELSE last.kind = "net" /\ last.cause \in {"file_cap", "run_cap"}

\* the last get failed in the decoder, the error carrying the URL of the call
DecoderError == ~last.ok /\ last.cause = "decompress" /\ last.url \in Urls

\* C23: whatever the payload x, get decodes gzip(x) sent as gzip, zlib or
\* raw deflate of x sent as deflate, and gzip(x) without a header (from
\* the server or from a cache file) to x; a body without header and
\* without the gzip signature comes back unchanged; a body the decoder it
\* is given to cannot read raises the decoder's error.  On the network the
\* two size caps may refuse the decoded payload.
C23_DecodingRoundTrip ==
    last.kind \in {"net", "hit"} /\ last.header # "unreachable" =>
        /\ \A x \in Payloads :
              /\ last.body = GzipCompress(x) /\ last.header \in {" GZIP ", NoHeader}
                    => AnsweredAs(x)
              /\ last.body \in {ZlibCompress(x), RawDeflate(x)} /\ last.header = "deflate"
                    => AnsweredAs(x)
        /\ last.header = NoHeader /\ ~(Len(last.body) >= 2 /\ last.body[1] = GzipMagic1
                                                          /\ last.body[2] = GzipMagic2)
              => AnsweredAs(last.body)
        /\ last.body = Truncated => DecoderError
        /\ last.body \in Payloads \ {<<>>} /\ last.header \in {" GZIP ", "deflate"}
              => DecoderError

\* a deflate answer of the longest payload was returned decoded
C23_Witness ==
    /\ last.kind = "net"
    /\ last.ok
    /\ last.header = "deflate"
    /\ last.body = ZlibCompress([k \in 1..MaxPayload |-> PlainByte])
    /\ last.data = [k \in 1..MaxPayload |-> PlainByte]

(***************************************************************************)
(* Claims about cache pruning.                                             *)
(***************************************************************************)
\* the files before the call, the files after it, and the files deleted
\* though they were not older than the age cutoff
FilesBefore == Range(last.before)
FilesAfter == Range(cache)
AgeCutoff == now - last.max_age_days
DeletedForSize == { f \in FilesBefore \ FilesAfter : f.mtime >= AgeCutoff }

\* C24: after prune_cache no file is left that was not there, none that is
\* older than the age cutoff, the files left total at most the size cap, a
\* file deleted for size is not newer than any file left, the deletion
\* for size stopped when the total came under the cap, and a directory
\* that met both thresholds is left as it was.
C24_PruneCache ==
    last.kind = "prune" =>
        /\ FilesAfter \subseteq FilesBefore
        /\ Len(cache) = Cardinality(FilesAfter)
        /\ \A f \in FilesAfter : f.mtime >= AgeCutoff
        /\ TotalSize(cache) <= last.max_total_bytes
        /\ \A d \in DeletedForSize, f \in FilesAfter : d.mtime <= f.mtime
        /\ DeletedForSize # {} =>
              \E d \in DeletedForSize : TotalSize(cache) + d.size > last.max_total_bytes
        /\ ( /\ \A f \in FilesBefore : f.mtime >= AgeCutoff
             /\ TotalSize(last.before) <= last.max_total_bytes )
           => FilesAfter = FilesBefore

\* one file was deleted for its age, then the older of two files for size,
\* and the newest was left
C24_Witness ==
    /\ last.kind = "prune"
    /\ Len(last.before) = 3
    /\ Len(cache) = 1
    /\ Cardinality(DeletedForSize) = 1
    /\ \A d \in DeletedForSize : d.size > 0 /\ d.mtime < cache[1].mtime

\* the filings whose index or instance document a url names
FilingsOf(url) ==
    { i \in DOMAIN rn_filings :
        url \in {IndexUrl(rn_filings[i].accession), InstanceUrl(rn_filings[i].accession)} }

\* C25: the gets of a run ask for the ticker table, then the filing
\* catalog, then the company facts, then the documents of the scoped
\* filings in the order of the filings; the company facts are asked for
\* once; the periods are built in the order of the filings, and the run
\* ends (summary, payload) only with a period for every filing.
C25_OrderOfARun ==
    /\ \A k \in DOMAIN rn_fetches :
          /\ k = 1 => rn_fetches[k].url = TickersUrl
          /\ k = 2 => rn_fetches[k].url = SubmissionsUrl /\ rn_fetches[1].ok
          /\ k = 3 => rn_fetches[k].url = CompanyFactsUrl /\ rn_fetches[2].ok
          /\ k > 3 => /\ rn_fetches[3].ok
                       /\ FilingsOf(rn_fetches[k].url) # {}
                       /\ \A j \in 4..k :
                             \A a \in FilingsOf(rn_fetches[j].url),
                                b \in FilingsOf(rn_fetches[k].url) : a <= b
    /\ rn_pc \in {"filing", "index", "instance", "finish"} =>
          /\ Len(rn_fetches) >= 3
          /\ Len(rn_periods) <= Len(rn_filings)
          /\ \A j \in DOMAIN rn_periods :
                rn_periods[j].filing.accession = rn_filings[j].accession
    /\ rn_pc \in {"finish", "returned"} =>
          /\ Len(rn_periods) = Len(rn_filings)
          /\ Cardinality({ k \in DOMAIN rn_fetches : rn_fetches[k].url = CompanyFactsUrl }) = 1

\* a run returned after the documents of two filings were asked for: the
\* company facts were fetched once for both
C25_Witness ==
    /\ rn_pc = "returned"
    /\ Len(rn_filings) = 2
    /\ Len(rn_fetches) >= 6
    /\ \E k \in DOMAIN rn_fetches : FilingsOf(rn_fetches[k].url) = {2}

(***************************************************************************)
(* More claims about the primary metrics.                                  *)
(***************************************************************************)
\* the fact that fact selection gives for a tag and the filing has a value
Yields(tag) ==
    LET fact == _select_fact_for_filing(TagEntries(pm_facts, tag), pm_filing).fact
    IN  fact # NoFact /\ fact.val # NoVal

\* the metric m carries the first tag of the alias list that yields a value
\* and the value selected for it, or is null when no tag of the list does
FirstAlias(m, aliases) ==
    IF \A i \in DOMAIN aliases : ~Yields(aliases[i]) THEN m = Null
    ELSE \E i \in DOMAIN aliases :
            /\ Yields(aliases[i])
            /\ \A j \in 1..(i - 1) : ~Yields(aliases[j])
            /\ m.xbrl_tag = aliases[i]
            /\ m.value = _select_fact_for_filing(TagEntries(pm_facts, aliases[i]),
                                                 pm_filing).fact.val

\* C26: each primary metric carries the first tag of its alias list for
\* which fact selection gives a fact with a value, a later alias only when
\* every earlier one gives none; capex records cash_paid_for_ppe exactly
\* with PaymentsToAcquirePropertyPlantAndEquipment and
\* capital_expenditures_fallback exactly with CapitalExpenditures.
C26_FirstAliasWins ==
    pm_pc = "done" =>
        /\ FirstAlias(pm_out.revenue,
                      << "RevenueFromContractWithCustomerExcludingAssessedTax", "Revenues",
                         "SalesRevenueNet" >>)
        /\ FirstAlias(pm_out.profit_net_income, << "NetIncomeLoss" >>)
        /\ FirstAlias(pm_out.capex,
                      << "PaymentsToAcquirePropertyPlantAndEquipment", "CapitalExpenditures" >>)
        /\ pm_out.capex # Null =>
              /\ pm_out.capex.capex_definition = "cash_paid_for_ppe"
                    <=> pm_out.capex.xbrl_tag = "PaymentsToAcquirePropertyPlantAndEquipment"
              /\ pm_out.capex.capex_definition = "capital_expenditures_fallback"
                    <=> pm_out.capex.xbrl_tag = "CapitalExpenditures"
              /\ pm_out.capex.capex_definition
                    \in {"cash_paid_for_ppe", "capital_expenditures_fallback"}

\* revenue came from the third alias, the first having a fact without a
\* value and the second none, and capex from the second tier
C26_Witness ==
    /\ pm_pc = "done"
    /\ pm_out.revenue.xbrl_tag = "SalesRevenueNet"
    /\ pm_facts["RevenueFromContractWithCustomerExcludingAssessedTax"] # <<>>
    /\ pm_facts["Revenues"] = <<>>
    /\ pm_out.capex.xbrl_tag = "CapitalExpenditures"

(***************************************************************************)
(* Claims about the choice of the instance document.                       *)
(***************************************************************************)
\* an item whose name ends in .xml and is no linkbase file
XmlCandidate(it) == it.name \in {"foo.xml", "report_htm.xml"}
\* a name ending in _htm.xml, an instance type
HtmName(it) == it.name = "report_htm.xml"
InstanceType(it) == it.type = "EX-101.INS"
Marked(it) == HtmName(it) \/ InstanceType(it)

\* C27: the chooser never returns a linkbase file or a non-XML file,
\* returns nothing when no candidate remains, and otherwise returns a
\* candidate that has a marker (a name ending in _htm.xml, an instance type)
\* whenever some candidate has one, size deciding only between candidates
\* whose markers are the same.
C27_InstanceChoice ==
    rn_pc = "chosen" =>
        LET cands == { it \in Range(rn_world.index) : XmlCandidate(it) }
        IN  /\ rn_chosen \notin {"", "abc_cal.xml", "doc.htm"}
            /\ cands = {} <=> rn_chosen = NoInstance
            /\ cands # {} =>
                  \E c \in cands :
                     /\ c.name = rn_chosen
                     /\ \A d \in cands :
                           /\ Marked(d) => Marked(c)
                           /\ (HtmName(d) <=> HtmName(c)) /\ (InstanceType(d) <=> InstanceType(c))
                                 => d.size <= c.size

(***************************************************************************)
(* Claims about forecast extraction in a run.                              *)
(***************************************************************************)
\* the documents of structured data: the ticker table, the submissions,
\* the company facts, and the file index and instance of a filing
StructuredUrls ==
    {"files/company_tickers.json", "submissions/CIK.json", "api/xbrl/companyfacts/CIK.json"}
        \cup {IndexUrl(a) : a \in Accessions} \cup {InstanceUrl(a) : a \in Accessions}

\* the last entry of the missing_data of p is the one forecasted_capex
\* entry, with the standard reason
ForecastEntryLast(p) ==
    /\ p.missing_data # <<>>
    /\ p.missing_data[Len(p.missing_data)] =
          [field |-> "forecasted_capex",
           reason |-> "Skipped to reduce download volume; textual filing artifacts are not downloaded."]
    /\ \A k \in 1..(Len(p.missing_data) - 1) : p.missing_data[k].field # "forecasted_capex"

\* C28: in every run no narrative document is fetched, every period has an
\* empty forecasted_capex and an empty forecasted_capex_by_segment list, and
\* its missing_data holds exactly one forecasted_capex entry, with the
\* standard skipped reason, after the primary and segment entries.
C28_ForecastDisabled ==
    /\ \A k \in DOMAIN rn_fetches : rn_fetches[k].url \in StructuredUrls
    /\ \A k \in DOMAIN rn_periods :
          /\ rn_periods[k].forecasted_capex = <<>>
          /\ rn_periods[k].forecasted_capex_by_segment = <<>>
          /\ ForecastEntryLast(rn_periods[k])

\* a run returned a period whose missing_data holds a primary entry and a
\* segment entry before the forecast entry, after fetching an instance
C28_Witness ==
    /\ rn_pc = "returned"
    /\ \E k \in DOMAIN rn_periods :
          /\ Len(rn_periods[k].missing_data) >= 3
          /\ "capex" \in MissingFields(rn_periods[k])
    /\ \E k \in DOMAIN rn_fetches : rn_fetches[k].url = InstanceUrl(OwnAccession)

(***************************************************************************)
(* Claims about the cache round trip.                                      *)
(***************************************************************************)
\* C29: a get answered from the cache right after a successful network
\* get of the same URL returns exactly the bytes the network get returned,
\* whatever they are.
C29_CacheRoundTrip ==
    [][ ( /\ last.kind = "net" /\ last.ok
          /\ last'.kind = "hit" /\ last'.url = last.url )
        => /\ last'.ok
           /\ last'.data = last.data ]_vars

(***************************************************************************)
(* Claims about the missing list of the primary metrics.                   *)
(***************************************************************************)
\* the entries of the missing list for a metric field
EntriesFor(m) == { i \in DOMAIN pm_missing : pm_missing[i].field = m }

\* C30: in the output of extract_primary_metrics the missing list has an
\* entry for revenue, profit_net_income or capex only when that metric is
\* null, and at most one entry for each of them: a populated metric, capex
\* found through the second tier included, is never also reported missing.
C30_MissingOnlyWhenNull ==
    pm_pc = "done" =>
        \A m \in {"revenue", "profit_net_income", "capex"} :
            /\ EntriesFor(m) # {} => pm_out[m] = Null
            /\ Cardinality(EntriesFor(m)) <= 1

====
